---- MODULE Spec2Model ----
(***************************************************************************)
(* A model of fastga-rs: the .1aln record codec (aln_filter_wrapper.c),    *)
(* writer creation and schema construction, the streaming query iterator   *)
(* and the process pipeline driver.                                        *)
(***************************************************************************)
EXTENDS Integers, Sequences, FiniteSets, TLC

\* ------------------------------------------------------------------------
\* Bounds of the model
\* ------------------------------------------------------------------------

\* Longest scaffold of the sequence databases used as fixtures.
MaxLen == 2

\* Most records written to one .1aln file.
MaxRecs == 2

\* Threads that create writers (or schemas) concurrently in one process.
NumCallers == 3

\* Threads that run an in-process alignment with a callback concurrently.
NumThreads == 2

\* Most records in the aligner's output stream.
MaxStream == 4

\* Query sequences in the aligner's output stream.
NumQueries == 3

\* Largest buffer_depth of the streaming query iterator.
MaxDepth == 2

\* Pipeline invocations that run concurrently.
NumInvocations == 2

\* Alignments one in-process invocation produces.
MaxAligns == 2

\* Contigs of the target database of the query-wise API.
MaxTargets == 2

\* Calls of stage entry points in one caller process.
MaxCalls == 3

\* Candidate records of one query handed to the filters.
MaxCands == 2

\* Largest max_per_query tried.
MaxKeep == 3

\* Query sets handed to the aggregator before the reciprocal-best pass.
NumQuerySets == 2

\* Lines of the tabular input.
MaxLines == 3

\* ------------------------------------------------------------------------
\* Program constants
\* ------------------------------------------------------------------------

\* Trace point spacing written by aln_create.
TraceSpacing == 100

\* Overlap flag bit: the B-read is complemented.
COMP_FLAG == 1

\* PlaneSweepConfig.max_overlap = 0.5, in percent.
MaxOverlapPct == 50

\* ------------------------------------------------------------------------
\* State
\* ------------------------------------------------------------------------

VARIABLES
    \* --- codec: AlnWriter / AlnHandle of aln_filter_wrapper.c ---
    gdb1,            \* GDB of the first (query) database
    gdb2,            \* GDB of the second (target) database
    wstate,          \* writer handle: "none", "open", "closed"
    file,            \* the .1aln file: [tspace, objects], an object is a sequence of lines
    written,         \* records passed to aln_write_record, in call order
    rstate,          \* reader handle: "none", "open", "closed"
    num_alignments,  \* AlnHandle.num_alignments
    current_idx,     \* AlnHandle.current_idx
    ofpos,           \* objects the OneFile has consumed
    readOut,         \* records returned by successful aln_read_record calls
    lastRet          \* <<return value>> of the last aln_read_record call, <<>> before

codecVars == <<gdb1, gdb2, wstate, file, written, rstate, num_alignments,
               current_idx, ofpos, readOut, lastRet>>

VARIABLES
    \* --- writer creation by concurrent threads of one process ---
    cpc,             \* per caller: where it is in aln_create / create_aln_schema
    capi,            \* per caller: "aln_create" (C) or "create_aln_schema" (Rust)
    cschema,         \* per caller: the schema it got: "none", "ok", "null"
    schemaLock,      \* holder of SCHEMA_CREATION_LOCK, 0 when free
    tmpSchema,       \* /tmp/OneTextSchema-<pid>.schema: 0 when absent, else its last writer
    died             \* the process ended in die()

schemaVars == <<cpc, capi, cschema, schemaLock, tmpSchema, died>>

VARIABLES
    \* --- streaming query iterator: producer thread, bounded queue, consumer ---
    sInput,          \* query id of every record the aligner emits, in order
    depth,           \* buffer_depth
    spos,            \* records the producer has read from the stream
    cur,             \* records of the query set being collected
    pending,         \* completed set the producer is sending (<<>> when none)
    queue,           \* completed sets queued and not yet taken
    yielded,         \* sets the consumer has taken, in order
    pstate,          \* producer: "reading", "sending", "flushing", "done", "stopped"
    cstate,          \* consumer: "active", "finished", "dropped"
    child,           \* aligner process: "running", "exited", "killed"
    blockedAtDrop    \* the producer was blocked on a full queue when the iterator was dropped

streamVars == <<sInput, depth, spos, cur, pending, queue, yielded, pstate,
                cstate, child, blockedAtDrop>>

VARIABLES
    \* --- pipeline driver: one entry per invocation ---
    cfg,             \* configuration: [workdir, pid, temp_dir ("None" when unset), timeout]
    pstep,           \* position in the stage sequence, 0 (validating) .. 6 (done)
    outcome,         \* "InFlight", "Done", "Failed", "TimedOut"
    pchild,          \* child process of the stage: "none", "running", "exited", "failed", "killed"
    prepared,        \* databases prepared so far: subset of {"query", "target"}
    indexed,         \* indices built so far: subset of {"query", "target"}
    cmdP,            \* argument of the aligner's -P flag, "None" when the flag is not passed
    reported,        \* error returned to the caller: <<>> or <<kind, stage>>
    files            \* temporary artifacts on disk: path -> invocation that wrote it last

pipeVars == <<cfg, pstep, outcome, pchild, prepared, indexed, cmdP, reported, files>>

VARIABLES
    \* --- in-process callback APIs: fastga_embedded.c and fastga_stream.c ---
    tpc,               \* per thread: "idle", "set_user_data", "running", "done"
    tapi,              \* per thread: "none", "streaming" (fastga_align_streaming)
                       \* or "callback" (fastga_align_with_callback)
    g_stream_context,  \* static StreamContext*: 0 (NULL) or the thread whose context it is
    g_callback,        \* static AlignmentCallback: 0 (NULL) or the thread that passed it
    g_user_data,       \* static void*: 0 (NULL) or the thread that passed it
    ctx,               \* per thread: its StreamContext [callback, alignment_count,
                       \* filtered_count]; callback is 0 (NULL) or the thread's own
    produced,          \* per thread: alignments its invocation has produced
    delivered,         \* callback calls made: [producer, callback, user_data]
    hook,              \* <<>> or <<the last hook call: its arguments, whether a callback
                       \* was installed, what it returned, whether the overlap was
                       \* written, the value returned>>
    tally              \* per context: hook calls that found its callback installed
                       \* (seen) and those of them the callback accepted (kept)

cbVars == <<tpc, tapi, g_stream_context, g_callback, g_user_data, ctx, produced,
            delivered, hook, tally>>

VARIABLES
    \* --- query-wise API of fastga_query_api.c ---
    qcfg,              \* [nq, nt, masked_q, masked_t, callback]: the two GDBs and the callback
    qpc,               \* "idle", "outer", "inner", "returned"; a direct call of
                       \* align_single_query: "single", "single_returned", "fault"
    qq,                \* q of align_queries_streaming
    target_idx,        \* target_idx of align_single_query
    count,             \* result->count of the current align_single_query
    total_alignments,  \* total_alignments of align_queries_streaming
    calls,             \* callback calls made: <<query, target, value returned>>
    alignments,        \* result->alignments[0..count-1]: <<query_id, target_id>>
    capacity,          \* result->capacity
    results,           \* results of the current query: "none", "set", "NULL"
    qboff              \* sign of the boff read through an out-of-range query index

qapiVars == <<qcfg, qpc, qq, target_idx, count, total_alignments, calls,
              alignments, capacity, results, qboff>>

VARIABLES
    \* --- aln_open / aln_get_seq_name against the database files on disk ---
    oNames,            \* db1_name, db2_name stored in the container
    oCount,            \* alignments stored in the container
    oDisk,             \* names of the database files Read_GDB can read
    oHandle,           \* result of aln_open: "none", "open", "NULL", "closed"
    oGdb,              \* handle->gdb1, handle->gdb2: the database each was read from
    oReported,         \* *num_alignments as set by aln_open, <<>> when not set
    oName              \* <<call and result>> of the last aln_get_seq_name, <<>> before

openVars == <<oNames, oCount, oDisk, oHandle, oGdb, oReported, oName>>

VARIABLES
    \* --- entry points that run a stage, and the process that runs it ---
    executions,        \* log of [stage, entry, pid]: pid 0 is the caller's process
    forked,            \* child processes created so far
    entryRet           \* <<entry point, return value>> of the last C call, <<>> before

execVars == <<executions, forked, entryRet>>

VARIABLES
    \* --- plane-sweep filter engine ---
    fIn,               \* candidate records of one query, in arrival order
    fCfg,              \* [max_per_query, max_overlap]
    fGrouped,          \* result of the group/top-N filter
    fSparse,           \* result of the overlap sparsification
    fPhase,            \* "raw", "grouped", "sparse"; "collecting", "final"
    fPending,          \* query-local result sets still to be aggregated
    fAgg,              \* records aggregated so far
    fFinal             \* result of the reciprocal-best pass

filterVars == <<fIn, fCfg, fGrouped, fSparse, fPhase, fPending, fAgg, fFinal>>

coreVars == <<codecVars, schemaVars, streamVars, pipeVars, cbVars, qapiVars, openVars,
              execVars>>

VARIABLES
    \* --- reader of the tabular alignment format ---
    tLines,            \* the lines of the input
    tPos,              \* lines consumed
    tDelivered,        \* records delivered, by line number
    tSkipped,          \* malformed lines skipped
    tState             \* "reading", "done", "aborted"

tabVars == <<tLines, tPos, tDelivered, tSkipped, tState>>

VARIABLES
    \* --- heap blocks of the reader and writer handles (aln_filter_wrapper.c) ---
    mem                \* per handle: [state, same, gdb1, gdb2, alloc, read, closes, frees]

memVars == <<mem>>

VARIABLES
    \* --- stdout capture of fastga_embedded.c ---
    output_buffer,     \* [alloc, bytes]: NULL when alloc is FALSE, else the block's bytes
    output_size,       \* static size_t output_size
    output_capacity,   \* static size_t output_capacity
    output_stream,     \* "NULL" or "open"
    stdout,            \* "orig" or "capture"
    epc,               \* fastga_run_embedded: "idle", "running", "returned", "crashed"
    output,            \* the char** output argument: TRUE when it is not NULL
    captured,          \* concatenation of the chunks whose capture_write succeeded
    lastWrite,         \* <<call, state before it and value returned>> of the last capture_write
    cret               \* <<>> or <<[result, given, str, terminated]>> of the last return

capVars == <<output_buffer, output_size, output_capacity, output_stream, stdout, epc,
             output, captured, lastWrite, cret>>

VARIABLES
    \* --- GIXpack -d: the parts of an index are decompressed in turn ---
    nthreads,          \* number of ktab parts, read from the .gix stub
    part,              \* p of main's loop
    ktab,              \* per part processed: its input, the output file and the value returned
    exitStatus         \* -1 while main runs, else the status the process ended with

gixVars == <<nthreads, part, ktab, exitStatus>>

extVars == <<filterVars, tabVars, memVars, capVars, gixVars>>

vars == <<coreVars, extVars>>

\* What the operations of each component leave alone.
notCodec == <<schemaVars, streamVars, pipeVars, cbVars, qapiVars,
               openVars, execVars, extVars>>

notCreate == <<codecVars, streamVars, pipeVars, cbVars, qapiVars,
                openVars, execVars, extVars>>

notStream == <<codecVars, schemaVars, pipeVars, cbVars, qapiVars,
                openVars, execVars, extVars>>

notPipe == <<codecVars, schemaVars, streamVars, cbVars, qapiVars,
              openVars, execVars, extVars>>

notCb == <<codecVars, schemaVars, streamVars, pipeVars, qapiVars,
            openVars, execVars, extVars>>

notQapi == <<codecVars, schemaVars, streamVars, pipeVars, cbVars,
              openVars, execVars, extVars>>

notOpen == <<codecVars, schemaVars, streamVars, pipeVars, cbVars, qapiVars,
            execVars, extVars>>

notExec == <<codecVars, schemaVars, streamVars, pipeVars, cbVars, qapiVars,
            openVars, extVars>>

notFilter == <<coreVars, tabVars, memVars, capVars, gixVars>>

notTab == <<coreVars, filterVars, memVars, capVars, gixVars>>

notMem == <<coreVars, filterVars, tabVars, capVars, gixVars>>

notCap == <<coreVars, filterVars, tabVars, memVars, gixVars>>

notGix == <<coreVars, filterVars, tabVars, memVars, capVars>>

\* ------------------------------------------------------------------------
\* Sequence databases (GDB): contigs inside scaffolds
\* ------------------------------------------------------------------------

Contig(s, b, c) == [scaf |-> s, sbeg |-> b, clen |-> c]

Scaffold(l) == [slen |-> l]

\* Two scaffolds, one contig each, every contig spanning its scaffold.
GdbPlain ==
    [ncontig |-> 2, nscaff |-> 2,
     contigs |-> <<Contig(0, 0, MaxLen), Contig(1, 0, 1)>>,
     scaffolds |-> <<Scaffold(MaxLen), Scaffold(1)>>]

\* Scaffold 0 is split in two contigs, so contig ids and scaffold ids differ
\* and the second contig does not start at offset 0.
GdbSplit ==
    [ncontig |-> 3, nscaff |-> 2,
     contigs |-> <<Contig(0, 0, 1), Contig(0, MaxLen - 1, 1), Contig(1, 0, 1)>>,
     scaffolds |-> <<Scaffold(MaxLen), Scaffold(1)>>]

GdbPairs == {<<GdbPlain, GdbPlain>>, <<GdbSplit, GdbSplit>>}

\* C arrays are 0-based.
ContigOf(g, i) == g.contigs[i + 1]

ScaffoldOf(g, i) == g.scaffolds[i + 1]

\* ------------------------------------------------------------------------
\* AlnRecord and the records handed to the writer
\* ------------------------------------------------------------------------

AlnRecord(qid, qs, qe, tid, ts, te, rev, d, ql, tl) ==
    [query_id |-> qid, query_start |-> qs, query_end |-> qe,
     target_id |-> tid, target_start |-> ts, target_end |-> te,
     reverse |-> rev, diffs |-> d, query_len |-> ql, target_len |-> tl]

\* 0 <= start <= end <= length on both sides.
ValidRecord(r) ==
    /\ 0 <= r.query_start /\ r.query_start <= r.query_end
    /\ r.query_end <= r.query_len
    /\ 0 <= r.target_start /\ r.target_start <= r.target_end
    /\ r.target_end <= r.target_len

\* Positions used for the ends of an interval of a scaffold of length len.
Positions(len) == {0, 1, len}

\* One side of a record on database g: a scaffold, an interval in it, its length.
Sides(g) ==
    UNION {LET len == ScaffoldOf(g, i).slen
           IN {[id |-> i, s |-> p[1], e |-> p[2], len |-> len] :
                  p \in {q \in Positions(len) \X Positions(len) : q[1] <= q[2]}} :
           i \in 0..(g.nscaff - 1)}

FullSide(g) == [id |-> 0, s |-> 0, e |-> ScaffoldOf(g, 0).slen,
                len |-> ScaffoldOf(g, 0).slen]

MkRecord(q, t, rev, d) ==
    AlnRecord(q.id, q.s, q.e, t.id, t.s, t.e, rev, d, q.len, t.len)

\* The records the caller writes: every query side against the full first
\* target scaffold, and every target side, on both strands, against the full
\* first query scaffold.  All of them are valid records of the two databases.
InputRecords(g1, g2) ==
    {MkRecord(q, FullSide(g2), 0, 0) : q \in Sides(g1)}
    \cup {MkRecord(FullSide(g1), t, rev, 0) : t \in Sides(g2), rev \in {0, 1}}
    \cup {MkRecord(FullSide(g1), FullSide(g2), rev, 1) : rev \in {0, 1}}

\* A record with query_start > query_end: aln_write_record does not look at
\* the content of the record it is given.
UnorderedRecord(g1, g2) ==
    MkRecord([id |-> 0, s |-> 1, e |-> 0, len |-> ScaffoldOf(g1, 0).slen],
             FullSide(g2), 0, 0)

WriterInputs(g1, g2) == InputRecords(g1, g2) \cup {UnorderedRecord(g1, g2)}

\* ------------------------------------------------------------------------
\* The .1aln file: lines grouped in objects ('A' and the lines that follow it)
\* ------------------------------------------------------------------------

Line(t, v) == [type |-> t, ints |-> v]

EmptyFile == [tspace |-> 0, objects |-> <<>>]

\* The lines aln_write_record writes for one record.
WriteLines(rec) ==
    <<Line("A", <<rec.query_id, rec.query_start, rec.query_end,
                  rec.target_id, rec.target_start, rec.target_end>>)>>
    \o (IF rec.reverse # 0 THEN <<Line("R", <<>>)>> ELSE <<>>)
    \o <<Line("D", <<rec.diffs>>),
         Line("L", <<rec.query_len, rec.target_len>>),
         Line("T", <<rec.target_end - rec.target_start>>),
         Line("X", <<rec.diffs>>)>>

HasLine(obj, t) == \E i \in 1..Len(obj) : obj[i].type = t

LineOf(obj, t) == obj[CHOOSE i \in 1..Len(obj) : obj[i].type = t]

\* Read_Aln_Overlap: the Overlap of one object.  The 'A' line holds the two
\* contig ids and the four positions, an 'R' line sets COMP_FLAG, the 'D'
\* line holds the differences; the Overlap is zeroed before (memset).
Read_Aln_Overlap(obj) ==
    [aread |-> obj[1].ints[1], abpos |-> obj[1].ints[2], aepos |-> obj[1].ints[3],
     bread |-> obj[1].ints[4], bbpos |-> obj[1].ints[5], bepos |-> obj[1].ints[6],
     flags |-> IF HasLine(obj, "R") THEN COMP_FLAG ELSE 0,
     diffs |-> IF HasLine(obj, "D") THEN LineOf(obj, "D").ints[1] ELSE 0]

\* ------------------------------------------------------------------------
\* aln_read_record: Overlap -> AlnRecord (contig -> scaffold mapping)
\* ------------------------------------------------------------------------

\* QuerySide that keeps the stored contig id when it is out of range.
QuerySide_keeps_id(g, ovl) ==
    IF ovl.aread >= 0 /\ ovl.aread < g.ncontig
    THEN LET ascaff == ContigOf(g, ovl.aread).scaf
             aoff == ContigOf(g, ovl.aread).sbeg
         IN [id |-> ascaff, len |-> ScaffoldOf(g, ascaff).slen,
             s |-> ovl.abpos + aoff, e |-> ovl.aepos + aoff]
    ELSE [id |-> ovl.aread, len |-> 0, s |-> 0, e |-> 0]

QuerySide(g, ovl) ==
    IF ovl.aread >= 0 /\ ovl.aread < g.ncontig
    THEN LET ascaff == ContigOf(g, ovl.aread).scaf
             aoff == ContigOf(g, ovl.aread).sbeg
         IN [id |-> ascaff, len |-> ScaffoldOf(g, ascaff).slen,
             s |-> ovl.abpos + aoff, e |-> ovl.aepos + aoff]
    ELSE [id |-> -1, len |-> 0, s |-> 0, e |-> 0]

\* TargetSide with the two ends exchanged on the reverse strand.
TargetSide_swapped_ends(g, ovl, reverse) ==
    IF ovl.bread >= 0 /\ ovl.bread < g.ncontig
    THEN LET bscaff == ContigOf(g, ovl.bread).scaf
             sbeg == ContigOf(g, ovl.bread).sbeg
             clen == ContigOf(g, ovl.bread).clen
             boff == sbeg + clen
         IN [id |-> bscaff, len |-> ScaffoldOf(g, bscaff).slen,
             s |-> IF reverse # 0 THEN boff - ovl.bbpos ELSE ovl.bbpos + sbeg,
             e |-> IF reverse # 0 THEN boff - ovl.bepos ELSE ovl.bepos + sbeg]
    ELSE [id |-> -1, len |-> 0, s |-> 0, e |-> 0]

TargetSide(g, ovl, reverse) ==
    IF ovl.bread >= 0 /\ ovl.bread < g.ncontig
    THEN LET bscaff == ContigOf(g, ovl.bread).scaf
             sbeg == ContigOf(g, ovl.bread).sbeg
             clen == ContigOf(g, ovl.bread).clen
             boff == sbeg + clen
         IN [id |-> bscaff, len |-> ScaffoldOf(g, bscaff).slen,
             s |-> IF reverse # 0 THEN boff - ovl.bepos ELSE ovl.bbpos + sbeg,
             e |-> IF reverse # 0 THEN boff - ovl.bbpos ELSE ovl.bepos + sbeg]
    ELSE [id |-> -1, len |-> 0, s |-> 0, e |-> 0]

RecordOfOverlap(g1, g2, ovl) ==
    LET reverse == IF ovl.flags % (2 * COMP_FLAG) >= COMP_FLAG THEN 1 ELSE 0
        q == QuerySide(g1, ovl)
        t == TargetSide(g2, ovl, reverse)
    IN AlnRecord(q.id, q.s, q.e, t.id, t.s, t.e, reverse, ovl.diffs, q.len, t.len)

\* The record a reader returns for the i-th object of file f.
DecodeAt(g1, g2, f, i) == RecordOfOverlap(g1, g2, Read_Aln_Overlap(f.objects[i]))

\* ------------------------------------------------------------------------
\* Codec operations
\* ------------------------------------------------------------------------

InitCodec ==
    /\ \E p \in GdbPairs : gdb1 = p[1] /\ gdb2 = p[2]
    /\ wstate = "none"
    /\ file = EmptyFile
    /\ written = <<>>
    /\ rstate = "none"
    /\ num_alignments = 0
    /\ current_idx = 0
    /\ ofpos = 0
    /\ readOut = <<>>
    /\ lastRet = <<>>

\* aln_create on its success path: the file starts with the 't' line.
aln_create ==
    /\ wstate = "none"
    /\ wstate' = "open"
    /\ file' = [tspace |-> TraceSpacing, objects |-> <<>>]
    /\ UNCHANGED <<notCodec, gdb1, gdb2, written, rstate, num_alignments, current_idx,
                   ofpos, readOut, lastRet>>

\* aln_write_record that puts the new object in front of the others.
aln_write_record_in_front ==
    /\ wstate = "open"
    /\ Len(written) < MaxRecs
    /\ \E rec \in WriterInputs(gdb1, gdb2) :
          /\ file' = [file EXCEPT !.objects = <<WriteLines(rec)>> \o @]
          /\ written' = Append(written, rec)
    /\ UNCHANGED <<notCodec, gdb1, gdb2, wstate, rstate, num_alignments, current_idx,
                   ofpos, readOut, lastRet>>

\* aln_write_record with a writer and a record: the lines of the record are
\* written after those already in the file, whatever the record holds.
aln_write_record ==
    /\ wstate = "open"
    /\ Len(written) < MaxRecs
    /\ \E rec \in WriterInputs(gdb1, gdb2) :
          /\ file' = [file EXCEPT !.objects = Append(@, WriteLines(rec))]
          /\ written' = Append(written, rec)
    /\ UNCHANGED <<notCodec, gdb1, gdb2, wstate, rstate, num_alignments, current_idx,
                   ofpos, readOut, lastRet>>

aln_close_writer ==
    /\ wstate = "open"
    /\ wstate' = "closed"
    /\ UNCHANGED <<notCodec, gdb1, gdb2, file, written, rstate, num_alignments,
                   current_idx, ofpos, readOut, lastRet>>

\* aln_open on its success path; open_Aln_Read reports the number of 'A' objects.
aln_open ==
    /\ wstate = "closed"
    /\ rstate = "none"
    /\ rstate' = "open"
    /\ num_alignments' = Len(file.objects)
    /\ current_idx' = 0
    /\ ofpos' = 0
    /\ UNCHANGED <<notCodec, gdb1, gdb2, wstate, file, written, readOut, lastRet>>

\* aln_read_record without the cursor increment.
aln_read_record_no_advance ==
    /\ rstate = "open"
    /\ IF current_idx >= num_alignments
       THEN /\ lastRet' = <<-1>>
            /\ UNCHANGED <<current_idx, ofpos, readOut>>
       ELSE /\ readOut' = Append(readOut, DecodeAt(gdb1, gdb2, file, ofpos + 1))
            /\ ofpos' = ofpos + 1
            /\ current_idx' = current_idx
            /\ lastRet' = <<0>>
    /\ UNCHANGED <<notCodec, gdb1, gdb2, wstate, file, written, rstate, num_alignments>>

\* aln_read_record with a handle and a record to fill.
aln_read_record ==
    /\ rstate = "open"
    /\ IF current_idx >= num_alignments
       THEN /\ lastRet' = <<-1>>
            /\ UNCHANGED <<current_idx, ofpos, readOut>>
       ELSE /\ readOut' = Append(readOut, DecodeAt(gdb1, gdb2, file, ofpos + 1))
            /\ ofpos' = ofpos + 1
            /\ current_idx' = current_idx + 1
            /\ lastRet' = <<0>>
    /\ UNCHANGED <<notCodec, gdb1, gdb2, wstate, file, written, rstate, num_alignments>>

\* aln_read_record(handle, NULL): no record to fill.
aln_read_record_null ==
    /\ rstate = "open"
    /\ lastRet' = <<-1>>
    /\ UNCHANGED <<notCodec, gdb1, gdb2, wstate, file, written, rstate, num_alignments,
                   current_idx, ofpos, readOut>>

aln_close ==
    /\ rstate = "open"
    /\ rstate' = "closed"
    /\ UNCHANGED <<notCodec, gdb1, gdb2, wstate, file, written, num_alignments,
                   current_idx, ofpos, readOut, lastRet>>

CodecStep ==
    \/ aln_create
    \/ aln_write_record
    \/ aln_close_writer
    \/ aln_open
    \/ aln_read_record
    \/ aln_read_record_null
    \/ aln_close

\* ------------------------------------------------------------------------
\* Reading a file of stored overlaps (written by the aligner itself)
\* ------------------------------------------------------------------------

\* The overlaps a .1aln file may hold for databases g1 and g2: contig ids in
\* and out of range, any two positions, either strand.
StoredOverlaps(g1, g2) ==
    [aread : -1..g1.ncontig, abpos : 0..MaxLen, aepos : 0..MaxLen,
     bread : -1..g2.ncontig, bbpos : 0..MaxLen, bepos : 0..MaxLen,
     flags : {0, COMP_FLAG}, diffs : {0}]

\* The object of the file that holds overlap ovl.
StoredObject(ovl) ==
    <<Line("A", <<ovl.aread, ovl.abpos, ovl.aepos, ovl.bread, ovl.bbpos, ovl.bepos>>)>>
    \o (IF ovl.flags = COMP_FLAG THEN <<Line("R", <<>>)>> ELSE <<>>)
    \o <<Line("D", <<ovl.diffs>>)>>

\* A closed file with one stored overlap, no reader yet.
InitStored ==
    /\ \E p \in GdbPairs :
          /\ gdb1 = p[1] /\ gdb2 = p[2]
          /\ \E ovl \in StoredOverlaps(p[1], p[2]) :
                file = [tspace |-> TraceSpacing, objects |-> <<StoredObject(ovl)>>]
    /\ wstate = "closed"
    /\ written = <<>>
    /\ rstate = "none"
    /\ num_alignments = 0
    /\ current_idx = 0
    /\ ofpos = 0
    /\ readOut = <<>>
    /\ lastRet = <<>>

ReaderStep ==
    \/ aln_open
    \/ aln_read_record
    \/ aln_read_record_null
    \/ aln_close

\* ------------------------------------------------------------------------
\* Claims on the codec
\* ------------------------------------------------------------------------

\* C1 (as claimed): every record read back equals, in every field, the valid
\* record that was written at the same position of the file.
C1_RoundTripIdentity ==
    \A i \in 1..Len(readOut) :
        ValidRecord(written[i]) => readOut[i] = written[i]

\* The reader's cursor, the OneFile position and the number of records
\* returned so far agree, and never pass the reported record count.
CursorCounts ==
    rstate # "none" =>
        /\ current_idx = Len(readOut)
        /\ ofpos = current_idx
        /\ current_idx <= num_alignments

\* The i-th successful read returned the i-th object of the file, seen through
\* the reader's databases: same positions on its 'A' line, same strand.
InFileOrder ==
    \A i \in 1..Len(readOut) :
        /\ readOut[i] = DecodeAt(gdb1, gdb2, file, i)
        /\ readOut[i].diffs = written[i].diffs
        /\ (readOut[i].reverse = 1) = (written[i].reverse # 0)

\* A read below the record count succeeds and moves the cursor by one; a read
\* at the record count, and every failing read, returns -1 and moves nothing.
ReadStep ==
    /\ (aln_read_record /\ current_idx < num_alignments) =>
          /\ lastRet' = <<0>>
          /\ current_idx' = current_idx + 1
          /\ Len(readOut') = Len(readOut) + 1
    /\ (aln_read_record /\ current_idx >= num_alignments) => lastRet' = <<-1>>
    /\ ((aln_read_record \/ aln_read_record_null) /\ lastRet' = <<-1>>) =>
          UNCHANGED <<current_idx, ofpos, readOut>>
    /\ (rstate = "open" /\ rstate' = "open") => current_idx' >= current_idx

\* C5: forward-only cursor: the i-th successful read returns the i-th record
\* in file order, the cursor never decreases, exactly num_alignments reads
\* succeed, and every later or failing read returns -1 and leaves the cursor.
C5_ForwardOnlyCursor ==
    /\ [](CursorCounts /\ InFileOrder)
    /\ [][ReadStep]_vars

\* C5 witness: a reader on a file of two different records returned both, in
\* order, and the call after them returned -1.
C5_Witness ==
    /\ rstate = "open"
    /\ num_alignments = 2
    /\ Len(readOut) = 2
    /\ readOut[1] # readOut[2]
    /\ lastRet = <<-1>>

\* C18: every write_record call appended exactly one object, in call order,
\* whatever the record holds; a reader of the closed file reports as many
\* records as were written and returns them in the order of the calls.
C18_InsertionOrder ==
    /\ Len(file.objects) = Len(written)
    /\ \A i \in 1..Len(written) : file.objects[i] = WriteLines(written[i])
    /\ rstate # "none" => num_alignments = Len(written)
    /\ Len(readOut) <= Len(written)
    /\ \A i \in 1..Len(readOut) :
          /\ readOut[i] = RecordOfOverlap(gdb1, gdb2, Read_Aln_Overlap(WriteLines(written[i])))
          /\ readOut[i].diffs = written[i].diffs
          /\ readOut[i].reverse = written[i].reverse

\* Two different records, the first with start > end, were written, and
\* both were read back.
C18_Witness ==
    /\ rstate = "open"
    /\ Len(written) = 2
    /\ ~ValidRecord(written[1])
    /\ written[2].reverse = 1
    /\ num_alignments = 2
    /\ Len(readOut) = 2
    /\ readOut[2].reverse = 1

\* Contig c of database g lies inside its scaffold.
ContigInScaffold(g, c) ==
    /\ 0 <= ContigOf(g, c).sbeg
    /\ ContigOf(g, c).sbeg + ContigOf(g, c).clen <= ScaffoldOf(g, ContigOf(g, c).scaf).slen

\* One side of a stored overlap is well formed: its contig id is out of
\* range, or 0 <= begin <= end <= contig length inside the scaffold.
WellFormedSide(g, c, b, e) ==
    (c >= 0 /\ c < g.ncontig) =>
        /\ 0 <= b /\ b <= e /\ e <= ContigOf(g, c).clen
        /\ ContigInScaffold(g, c)

WellFormedOverlap(g1, g2, ovl) ==
    /\ WellFormedSide(g1, ovl.aread, ovl.abpos, ovl.aepos)
    /\ WellFormedSide(g2, ovl.bread, ovl.bbpos, ovl.bepos)

\* C35: a stored overlap whose query or target contig id is outside
\* [0, ncontig) is still returned by aln_read_record with value 0 and the
\* cursor advanced by one; that side of the record has id -1 and length,
\* start and end 0, and a side whose contig id is in range has the
\* scaffold of its contig and that scaffold's length.
C35_InBandInvalidIds ==
    /\ current_idx = Len(readOut)
    /\ \A i \in 1..Len(readOut) :
          LET ovl == Read_Aln_Overlap(file.objects[i])
              r == readOut[i]
          IN /\ IF ovl.aread < 0 \/ ovl.aread >= gdb1.ncontig
                THEN /\ r.query_id = -1 /\ r.query_len = 0
                     /\ r.query_start = 0 /\ r.query_end = 0
                ELSE /\ r.query_id = ContigOf(gdb1, ovl.aread).scaf
                     /\ r.query_len = ScaffoldOf(gdb1, r.query_id).slen
                     /\ r.query_end - r.query_start = ovl.aepos - ovl.abpos
             /\ IF ovl.bread < 0 \/ ovl.bread >= gdb2.ncontig
                THEN /\ r.target_id = -1 /\ r.target_len = 0
                     /\ r.target_start = 0 /\ r.target_end = 0
                ELSE /\ r.target_id = ContigOf(gdb2, ovl.bread).scaf
                     /\ r.target_len = ScaffoldOf(gdb2, r.target_id).slen
                     /\ r.target_end - r.target_start = ovl.bepos - ovl.bbpos
    /\ lastRet = <<0>> => Len(readOut) > 0

\* An overlap with a negative query contig id and a target contig in range
\* was read with value 0.
C35_Witness ==
    /\ Len(readOut) = 1
    /\ lastRet = <<0>>
    /\ current_idx = 1
    /\ LET ovl == Read_Aln_Overlap(file.objects[1])
       IN /\ ovl.aread = -1
          /\ ovl.bread >= 0 /\ ovl.bread < gdb2.ncontig
          /\ ovl.bbpos < ovl.bepos
          /\ readOut[1].query_id = -1
          /\ readOut[1].target_id >= 0

\* C17: every record aln_read_record returns for a well-formed stored
\* overlap (contig-relative 0 <= begin <= end <= contig length, or a contig
\* id out of range) has 0 <= start <= end <= length on the query and on the
\* target side, on either strand.
C17_CoordinateInvariant ==
    \A i \in 1..Len(readOut) :
        WellFormedOverlap(gdb1, gdb2, Read_Aln_Overlap(file.objects[i]))
            => ValidRecord(readOut[i])

\* A reverse-strand overlap on a contig that starts inside its scaffold,
\* with an out-of-range query contig, has been read.
C17_Witness ==
    /\ Len(readOut) = 1
    /\ LET ovl == Read_Aln_Overlap(file.objects[1])
       IN /\ WellFormedOverlap(gdb1, gdb2, ovl)
          /\ ovl.flags = COMP_FLAG
          /\ ovl.aread = gdb1.ncontig
          /\ ovl.bread >= 0 /\ ovl.bread < gdb2.ncontig
          /\ ContigOf(gdb2, ovl.bread).sbeg > 0
          /\ ovl.bbpos < ovl.bepos
    /\ readOut[1].reverse = 1
    /\ readOut[1].query_id = -1
    /\ readOut[1].target_start < readOut[1].target_end

\* ------------------------------------------------------------------------
\* Writer creation by concurrent callers: aln_create step by step, and the
\* Rust create_aln_schema under SCHEMA_CREATION_LOCK
\* ------------------------------------------------------------------------

Callers == 1..NumCallers

IdleCodec ==
    /\ gdb1 = GdbPlain /\ gdb2 = GdbPlain
    /\ wstate = "none" /\ file = EmptyFile /\ written = <<>>
    /\ rstate = "none" /\ num_alignments = 0 /\ current_idx = 0
    /\ ofpos = 0 /\ readOut = <<>> /\ lastRet = <<>>

InitSchema ==
    /\ cpc = [c \in Callers |-> "idle"]
    /\ capi = [c \in Callers |-> "none"]
    /\ cschema = [c \in Callers |-> "none"]
    /\ schemaLock = 0
    /\ tmpSchema = 0
    /\ died = FALSE

\* Callers inside make_Aln_Schema / OneSchema::from_text (oneSchemaCreateFromText).
InSchemaConstruction == {c \in Callers : cpc[c] \in {"schema_file", "schema_unlink"}}

\* aln_create is called: the writer is allocated, then the GDBs are read.
aln_create_enter(c) ==
    /\ UNCHANGED notCreate
    /\ ~died /\ cpc[c] = "idle"
    /\ capi' = [capi EXCEPT ![c] = "aln_create"]
    /\ \/ cpc' = [cpc EXCEPT ![c] = "read_gdb"]
       \/ cpc' = [cpc EXCEPT ![c] = "failed"]       \* malloc returned NULL
    /\ UNCHANGED <<cschema, schemaLock, tmpSchema, died>>

\* Read_GDB of both databases; on failure aln_create goes to error.
aln_create_read_gdb(c) ==
    /\ UNCHANGED notCreate
    /\ ~died /\ cpc[c] = "read_gdb"
    /\ \/ cpc' = [cpc EXCEPT ![c] = "schema"]
       \/ cpc' = [cpc EXCEPT ![c] = "failed"]
    /\ UNCHANGED <<capi, cschema, schemaLock, tmpSchema, died>>

\* create_aln_schema is called (Rust): it first waits for the lock.
create_aln_schema_enter(c) ==
    /\ UNCHANGED notCreate
    /\ ~died /\ cpc[c] = "idle"
    /\ capi' = [capi EXCEPT ![c] = "create_aln_schema"]
    /\ cpc' = [cpc EXCEPT ![c] = "lock"]
    /\ UNCHANGED <<cschema, schemaLock, tmpSchema, died>>

\* SCHEMA_CREATION_LOCK.lock()
schema_lock(c) ==
    /\ UNCHANGED notCreate
    /\ ~died /\ cpc[c] = "lock"
    /\ schemaLock = 0
    /\ schemaLock' = c
    /\ cpc' = [cpc EXCEPT ![c] = "schema"]
    /\ UNCHANGED <<capi, cschema, tmpSchema, died>>

\* oneSchemaCreateFromText, first part: the schema text is written to the
\* temp file whose name holds only the process id.
schema_write_temp(c) ==
    /\ UNCHANGED notCreate
    /\ ~died /\ cpc[c] = "schema"
    /\ tmpSchema' = c
    /\ cpc' = [cpc EXCEPT ![c] = "schema_file"]
    /\ UNCHANGED <<capi, cschema, schemaLock, died>>

\* oneSchemaCreateFromFile(template): NULL when the file is gone.
schema_read_temp(c) ==
    /\ UNCHANGED notCreate
    /\ ~died /\ cpc[c] = "schema_file"
    /\ cschema' = [cschema EXCEPT ![c] = IF tmpSchema = 0 THEN "null" ELSE "ok"]
    /\ cpc' = [cpc EXCEPT ![c] = "schema_unlink"]
    /\ UNCHANGED <<capi, schemaLock, tmpSchema, died>>

\* Where a caller goes when schema construction returns.
AfterSchema(c) ==
    IF capi[c] = "aln_create"
    THEN (IF cschema[c] = "ok" THEN "open_file" ELSE "failed")
    ELSE "unlock"

\* unlink(template); die() when it fails.
schema_unlink_temp(c) ==
    /\ UNCHANGED notCreate
    /\ ~died /\ cpc[c] = "schema_unlink"
    /\ IF tmpSchema = 0
       THEN /\ died' = TRUE
            /\ UNCHANGED <<cpc, tmpSchema>>
       ELSE /\ tmpSchema' = 0
            /\ cpc' = [cpc EXCEPT ![c] = AfterSchema(c)]
            /\ UNCHANGED died
    /\ UNCHANGED <<capi, cschema, schemaLock>>

\* A return from create_aln_schema that keeps the lock.
schema_unlock_keeps_lock(c) ==
    /\ UNCHANGED notCreate
    /\ ~died /\ cpc[c] = "unlock"
    /\ schemaLock = c
    /\ cpc' = [cpc EXCEPT ![c] = IF cschema[c] = "ok" THEN "done" ELSE "failed"]
    /\ UNCHANGED <<capi, cschema, schemaLock, tmpSchema, died>>

\* The guard of create_aln_schema is dropped on return.
schema_unlock(c) ==
    /\ UNCHANGED notCreate
    /\ ~died /\ cpc[c] = "unlock"
    /\ schemaLock = c
    /\ schemaLock' = 0
    /\ cpc' = [cpc EXCEPT ![c] = IF cschema[c] = "ok" THEN "done" ELSE "failed"]
    /\ UNCHANGED <<capi, cschema, tmpSchema, died>>

\* oneFileOpenWriteNew and the header lines; NULL sends aln_create to error.
aln_create_open_file(c) ==
    /\ UNCHANGED notCreate
    /\ ~died /\ cpc[c] = "open_file"
    /\ \/ cpc' = [cpc EXCEPT ![c] = "done"]
       \/ cpc' = [cpc EXCEPT ![c] = "failed"]
    /\ UNCHANGED <<capi, cschema, schemaLock, tmpSchema, died>>

SchemaStep ==
    \E c \in Callers :
        \/ aln_create_enter(c)
        \/ aln_create_read_gdb(c)
        \/ create_aln_schema_enter(c)
        \/ schema_lock(c)
        \/ schema_write_temp(c)
        \/ schema_read_temp(c)
        \/ schema_unlink_temp(c)
        \/ schema_unlock(c)
        \/ aln_create_open_file(c)

\* C2 (as claimed): at most one schema construction is in flight at any
\* moment, whichever way the callers create their writers.
C2_OneSchemaInFlight == Cardinality(InSchemaConstruction) <= 1

\* With every caller going through create_aln_schema, the lock holder is the
\* only caller inside schema construction.
GuardedSchemaExclusive ==
    \A c \in InSchemaConstruction :
        capi[c] = "create_aln_schema" => schemaLock = c

\* A call of create_aln_schema by caller c, step by step.
GuardedCall(c) ==
    \/ create_aln_schema_enter(c)
    \/ schema_lock(c)
    \/ schema_write_temp(c)
    \/ schema_read_temp(c)
    \/ schema_unlink_temp(c)
    \/ schema_unlock(c)

\* C15: every caller of create_aln_schema that waits for the lock gets it,
\* builds its schema and returns successfully; no caller is turned away or
\* fails, and the process does not die.
C15_GuardLiveness ==
    /\ [](~died /\ \A c \in Callers : cpc[c] # "failed")
    /\ \A c \in Callers :
          [](cpc[c] = "lock" => <>(cpc[c] = "done" /\ cschema[c] = "ok"))

\* C15 witness: every caller went through create_aln_schema and returned
\* with its schema; the lock is free again.
C15_Witness ==
    /\ \A c \in Callers :
          capi[c] = "create_aln_schema" /\ cpc[c] = "done" /\ cschema[c] = "ok"
    /\ schemaLock = 0

\* ------------------------------------------------------------------------
\* Streaming query iterator (QueryAlignmentIterator): a producer thread
\* reads the aligner's records, cuts them at query boundaries and sends the
\* completed sets through a queue of buffer_depth slots
\* ------------------------------------------------------------------------

StreamRecord(i) == [query |-> sInput[i], idx |-> i]

InitStream ==
    /\ sInput \in UNION {[1..n -> 1..NumQueries] : n \in 0..MaxStream}
    /\ depth \in 1..MaxDepth
    /\ spos = 0
    /\ cur = <<>>
    /\ pending = <<>>
    /\ queue = <<>>
    /\ yielded = <<>>
    /\ pstate = "reading"
    /\ cstate = "active"
    /\ child = "running"
    /\ blockedAtDrop = FALSE

IdleStream ==
    /\ sInput = <<>> /\ depth = 1 /\ spos = 0 /\ cur = <<>> /\ pending = <<>>
    /\ queue = <<>> /\ yielded = <<>> /\ pstate = "done" /\ cstate = "finished"
    /\ child = "exited" /\ blockedAtDrop = FALSE

\* A read that closes the set being collected at every record.
ProducerRead_cut_every_record ==
    /\ UNCHANGED notStream
    /\ pstate = "reading" /\ cstate # "dropped"
    /\ spos < Len(sInput)
    /\ LET r == StreamRecord(spos + 1)
       IN IF cur # <<>>
          THEN /\ pending' = cur
               /\ cur' = <<r>>
               /\ pstate' = "sending"
          ELSE /\ cur' = Append(cur, r)
               /\ UNCHANGED <<pending, pstate>>
    /\ spos' = spos + 1
    /\ UNCHANGED <<sInput, depth, queue, yielded, cstate, child, blockedAtDrop>>

\* The producer reads one record.  A record of another query than the set
\* being collected completes that set: the producer turns to sending it and
\* the record opens the next set.
ProducerRead ==
    /\ UNCHANGED notStream
    /\ pstate = "reading" /\ cstate # "dropped"
    /\ spos < Len(sInput)
    /\ LET r == StreamRecord(spos + 1)
       IN IF cur # <<>> /\ cur[1].query # r.query
          THEN /\ pending' = cur
               /\ cur' = <<r>>
               /\ pstate' = "sending"
          ELSE /\ cur' = Append(cur, r)
               /\ UNCHANGED <<pending, pstate>>
    /\ spos' = spos + 1
    /\ UNCHANGED <<sInput, depth, queue, yielded, cstate, child, blockedAtDrop>>

\* End of stream without the flush of the set being collected.
ProducerEndOfStream_no_flush ==
    /\ UNCHANGED notStream
    /\ pstate = "reading" /\ cstate # "dropped"
    /\ spos = Len(sInput)
    /\ child' = "exited"
    /\ pstate' = "done"
    /\ cur' = <<>>
    /\ UNCHANGED <<sInput, depth, spos, pending, queue, yielded, cstate, blockedAtDrop>>

\* End of stream: the aligner has exited; the set being collected is flushed.
ProducerEndOfStream ==
    /\ UNCHANGED notStream
    /\ pstate = "reading" /\ cstate # "dropped"
    /\ spos = Len(sInput)
    /\ child' = "exited"
    /\ IF cur # <<>>
       THEN /\ pending' = cur
            /\ cur' = <<>>
            /\ pstate' = "flushing"
       ELSE /\ pstate' = "done"
            /\ UNCHANGED <<pending, cur>>
    /\ UNCHANGED <<sInput, depth, spos, queue, yielded, cstate, blockedAtDrop>>

\* A send that never blocks.
ProducerSend_unbounded ==
    /\ UNCHANGED notStream
    /\ pstate \in {"sending", "flushing"} /\ cstate # "dropped"
    /\ queue' = Append(queue, pending)
    /\ pending' = <<>>
    /\ pstate' = IF pstate = "sending" THEN "reading" ELSE "done"
    /\ UNCHANGED <<sInput, depth, spos, cur, yielded, cstate, child, blockedAtDrop>>

\* A send that lets one set more than buffer_depth into the queue.
ProducerSend_one_more ==
    /\ UNCHANGED notStream
    /\ pstate \in {"sending", "flushing"} /\ cstate # "dropped"
    /\ Len(queue) <= depth
    /\ queue' = Append(queue, pending)
    /\ pending' = <<>>
    /\ pstate' = IF pstate = "sending" THEN "reading" ELSE "done"
    /\ UNCHANGED <<sInput, depth, spos, cur, yielded, cstate, child, blockedAtDrop>>

\* The blocking send: it goes through only while fewer than buffer_depth
\* sets are queued.
ProducerSend ==
    /\ UNCHANGED notStream
    /\ pstate \in {"sending", "flushing"} /\ cstate # "dropped"
    /\ Len(queue) < depth
    /\ queue' = Append(queue, pending)
    /\ pending' = <<>>
    /\ pstate' = IF pstate = "sending" THEN "reading" ELSE "done"
    /\ UNCHANGED <<sInput, depth, spos, cur, yielded, cstate, child, blockedAtDrop>>

\* Cancellation that is seen only between two reads, never inside a send.
ProducerCancelled_only_reading ==
    /\ UNCHANGED notStream
    /\ pstate = "reading" /\ cstate = "dropped"
    /\ pstate' = "stopped"
    /\ child' = IF child = "running" THEN "killed" ELSE child
    /\ UNCHANGED <<sInput, depth, spos, cur, pending, queue, yielded, cstate,
                   blockedAtDrop>>

\* The iterator was dropped: the producer, reading or blocked in a send,
\* gets the cancellation, stops reading and terminates the aligner.
ProducerCancelled ==
    /\ UNCHANGED notStream
    /\ pstate \in {"reading", "sending", "flushing"} /\ cstate = "dropped"
    /\ pstate' = "stopped"
    /\ child' = IF child = "running" THEN "killed" ELSE child
    /\ UNCHANGED <<sInput, depth, spos, cur, pending, queue, yielded, cstate,
                   blockedAtDrop>>

\* next() with a set queued: the consumer takes the oldest one.
ConsumerNext ==
    /\ UNCHANGED notStream
    /\ cstate = "active"
    /\ queue # <<>>
    /\ yielded' = Append(yielded, Head(queue))
    /\ queue' = Tail(queue)
    /\ UNCHANGED <<sInput, depth, spos, cur, pending, pstate, cstate, child,
                   blockedAtDrop>>

\* next() on an empty queue after the producer finished: end of iteration.
ConsumerEnd ==
    /\ UNCHANGED notStream
    /\ cstate = "active"
    /\ queue = <<>> /\ pstate = "done"
    /\ cstate' = "finished"
    /\ UNCHANGED <<sInput, depth, spos, cur, pending, queue, yielded, pstate,
                   child, blockedAtDrop>>

\* The consumer drops the iterator before the stream is exhausted; the sets
\* still queued are discarded with it.
ConsumerDrop ==
    /\ UNCHANGED notStream
    /\ cstate = "active"
    /\ ~(queue = <<>> /\ pstate = "done")
    /\ cstate' = "dropped"
    /\ queue' = <<>>
    /\ blockedAtDrop' = (pstate \in {"sending", "flushing"} /\ Len(queue) = depth)
    /\ UNCHANGED <<sInput, depth, spos, cur, pending, yielded, pstate, child>>

ProducerStep ==
    \/ ProducerRead
    \/ ProducerEndOfStream
    \/ ProducerSend
    \/ ProducerCancelled

ConsumerStep ==
    \/ ConsumerNext
    \/ ConsumerEnd
    \/ ConsumerDrop

StreamStep == ProducerStep \/ ConsumerStep

\* ------------------------------------------------------------------------
\* Claims on the streaming query iterator
\* ------------------------------------------------------------------------

\* Positions of the stream where a query set starts (the query id changes).
SetStarts == {i \in 1..Len(sInput) : i = 1 \/ sInput[i] # sInput[i - 1]}

NumSets == Cardinality(SetStarts)

\* Position of the first record of the n-th query set of the stream.
FirstRecordOf(n) ==
    CHOOSE i \in SetStarts : Cardinality({j \in SetStarts : j <= i}) = n

\* The records of each query are contiguous in the stream.
QueryOrdered ==
    \A i, k \in 1..Len(sInput) :
        (i < k /\ sInput[i] = sInput[k]) =>
            \A j \in i..k : sInput[j] = sInput[i]

RECURSIVE Flatten(_)
Flatten(sets) == IF sets = <<>> THEN <<>> ELSE Head(sets) \o Flatten(Tail(sets))

C4_StreamingPartition ==
    (cstate = "finished" /\ QueryOrdered) =>
        /\ Flatten(yielded) = [i \in 1..Len(sInput) |-> StreamRecord(i)]
        /\ \A k \in 1..Len(yielded) :
              /\ yielded[k] # <<>>
              /\ \A i \in 1..Len(yielded[k]) : yielded[k][i].query = yielded[k][1].query
        /\ \A k, m \in 1..Len(yielded) :
              k < m => /\ yielded[k][1].query # yielded[m][1].query
                       /\ yielded[k][1].idx < yielded[m][1].idx
        /\ {yielded[k][1].query : k \in 1..Len(yielded)}
              = {sInput[i] : i \in 1..Len(sInput)}
        /\ Len(yielded) = NumSets

\* C4 witness: the iteration ended on a query-ordered stream of three
\* queries, the last of them flushed at end of stream.
C4_Witness ==
    /\ cstate = "finished"
    /\ QueryOrdered
    /\ Len(sInput) = MaxStream
    /\ Len(yielded) = 3
    /\ Len(yielded[1]) = 2

\* The producer holds a completed set and the queue is full.
ProducerBlocked == pending # <<>> /\ Len(queue) = depth

\* C13: the queue never holds more than buffer_depth sets; while the
\* producer holds a completed set and the queue is full it neither reads nor
\* sends, and the queue only shrinks.
C13_QueueBound ==
    /\ [](Len(queue) <= depth)
    /\ [][ProducerBlocked =>
             /\ spos' = spos
             /\ pending' = pending
             /\ Len(queue') <= Len(queue)]_vars

\* C13 witness: buffer_depth = 2, two sets are queued and the producer holds
\* a third one, blocked in its send.
C13_Witness ==
    /\ depth = 2
    /\ Len(queue) = 2
    /\ pstate = "sending"
    /\ pending # <<>>
    /\ cstate = "active"

C6_CancellationTerminates ==
    /\ [][cstate = "dropped" => spos' = spos]_vars
    /\ (cstate = "dropped") ~> (pstate \in {"stopped", "done"} /\ child # "running")

\* C6 witness: the iterator was dropped while the producer was blocked on a
\* full queue with more of the stream unread; the producer has stopped and
\* the aligner has been killed.
C6_Witness ==
    /\ cstate = "dropped"
    /\ blockedAtDrop
    /\ pstate = "stopped"
    /\ child = "killed"
    /\ spos < Len(sInput)

\* ------------------------------------------------------------------------
\* Pipeline driver: validate, FAtoGDB on query and target, GIXmake on both,
\* then FastGA, each stage a child process
\* ------------------------------------------------------------------------

Invocations == 1..NumInvocations

\* Configurations of an invocation.  temp_dir is None unless the caller sets
\* it; the timeout is the one of TimeoutAligner::with_timeout.
DefaultConfig == [workdir |-> "w1", pid |-> "p1", temp_dir |-> "None", timeout |-> FALSE]

TimeoutConfig == [workdir |-> "w1", pid |-> "p1", temp_dir |-> "None", timeout |-> TRUE]

TempDirConfig == [workdir |-> "w2", pid |-> "p2", temp_dir |-> "t2", timeout |-> TRUE]

\* Invocations are interchangeable, so InitPipe hands the configurations out
\* in this order.

Configs == <<DefaultConfig, TimeoutConfig, TempDirConfig>>

\* The stage an invocation is in at each position of the sequence.
StageOf(step) ==
    CASE step = 0 -> "Validating"
      [] step = 1 -> "PreparingQueryDB"
      [] step = 2 -> "PreparingTargetDB"
      [] step \in {3, 4} -> "Indexing"
      [] step = 5 -> "Aligning"
      [] OTHER -> "Done"

Stage(i) == IF outcome[i] = "InFlight" THEN StageOf(pstep[i]) ELSE outcome[i]

\* let temp_aln = working_dir.join(format!("_tmp_{}.1aln", std::process::id()))
TempAlnPath(i) == <<cfg[i].workdir, "_tmp_", cfg[i].pid, ".1aln">>

\* The directory the aligner puts its temporary files in: the -P argument,
\* else $TMPDIR.
AlignerTempDir(i) == IF cmdP[i] # "None" THEN cmdP[i] ELSE "/tmp"

\* Prepared databases and indices of an invocation.
ArtifactPath(i, kind, which) == <<i, kind, which>>

\* Every temporary path an invocation writes.
PathsOf(i) ==
    {ArtifactPath(i, k, w) : k \in {"gdb", "gix"}, w \in {"query", "target"}}
        \cup {TempAlnPath(i)}

AllPaths == UNION {PathsOf(i) : i \in Invocations}

\* Removal of the temporary artifacts of an invocation.
Cleanup(fs, i) == [p \in AllPaths |-> IF p \in PathsOf(i) THEN 0 ELSE fs[p]]

InitPipe ==
    /\ \E k \in [Invocations -> 1..Len(Configs)] :
          /\ \A i, j \in Invocations : i <= j => k[i] <= k[j]
          /\ cfg = [i \in Invocations |-> Configs[k[i]]]
    /\ pstep = [i \in Invocations |-> 0]
    /\ outcome = [i \in Invocations |-> "InFlight"]
    /\ pchild = [i \in Invocations |-> "none"]
    /\ prepared = [i \in Invocations |-> {}]
    /\ indexed = [i \in Invocations |-> {}]
    /\ cmdP = [i \in Invocations |-> "None"]
    /\ reported = [i \in Invocations |-> <<>>]
    /\ files = [p \in AllPaths |-> 0]

IdlePipe == InitPipe /\ cfg = [i \in Invocations |-> DefaultConfig]

\* What the child of a stage leaves on disk when it starts: the aligner
\* opens its output file, the intermediate .1aln.
SpawnFiles(fs, i, step) ==
    IF step = 5 THEN [fs EXCEPT ![TempAlnPath(i)] = i] ELSE fs

\* The aligner's command line: -P<dir> only if temp_dir is set.
SpawnArgs(i, step) ==
    IF step = 5 /\ cfg[i].temp_dir # "None" THEN cfg[i].temp_dir ELSE "None"

\* validate_inputs that also takes up again an invocation whose stage failed.
validate_inputs_retry(i) ==
    /\ UNCHANGED notPipe
    /\ \/ outcome[i] = "InFlight" /\ pstep[i] = 0
       \/ outcome[i] = "Failed" /\ pchild[i] = "failed"
    /\ pstep' = [pstep EXCEPT ![i] = 1]
    /\ outcome' = [outcome EXCEPT ![i] = "InFlight"]
    /\ pchild' = [pchild EXCEPT ![i] = "running"]
    /\ UNCHANGED <<cfg, prepared, indexed, cmdP, reported, files>>

\* validate_inputs succeeds and fork_fatogdb(query) starts.
validate_inputs(i) ==
    /\ UNCHANGED notPipe
    /\ outcome[i] = "InFlight" /\ pstep[i] = 0
    /\ pstep' = [pstep EXCEPT ![i] = 1]
    /\ pchild' = [pchild EXCEPT ![i] = "running"]
    /\ UNCHANGED <<cfg, outcome, prepared, indexed, cmdP, reported, files>>

\* validate_inputs fails: an input does not exist.
validate_inputs_fail(i) ==
    /\ UNCHANGED notPipe
    /\ outcome[i] = "InFlight" /\ pstep[i] = 0
    /\ outcome' = [outcome EXCEPT ![i] = "Failed"]
    /\ reported' = [reported EXCEPT ![i] = <<"StageError", StageOf(0)>>]
    /\ files' = Cleanup(files, i)
    /\ UNCHANGED <<cfg, pstep, pchild, prepared, indexed, cmdP>>

\* What a stage that completed has produced.
StageOutput(fs, i, step) ==
    CASE step = 1 -> [fs EXCEPT ![ArtifactPath(i, "gdb", "query")] = i]
      [] step = 2 -> [fs EXCEPT ![ArtifactPath(i, "gdb", "target")] = i]
      [] step = 3 -> [fs EXCEPT ![ArtifactPath(i, "gix", "query")] = i]
      [] step = 4 -> [fs EXCEPT ![ArtifactPath(i, "gix", "target")] = i]
      [] OTHER -> fs

\* A stage that skips the one after it.
stage_complete_skip(i) ==
    /\ UNCHANGED notPipe
    /\ outcome[i] = "InFlight" /\ pstep[i] \in 1..4 /\ pchild[i] = "running"
    /\ pstep' = [pstep EXCEPT ![i] = IF pstep[i] < 4 THEN pstep[i] + 2 ELSE 5]
    /\ prepared' = [prepared EXCEPT
           ![i] = CASE pstep[i] = 1 -> @ \cup {"query"}
                    [] pstep[i] = 2 -> @ \cup {"target"}
                    [] OTHER -> @]
    /\ indexed' = [indexed EXCEPT
           ![i] = CASE pstep[i] = 3 -> @ \cup {"query"}
                    [] pstep[i] = 4 -> @ \cup {"target"}
                    [] OTHER -> @]
    /\ cmdP' = [cmdP EXCEPT ![i] = SpawnArgs(i, pstep'[i])]
    /\ files' = SpawnFiles(StageOutput(files, i, pstep[i]), i, pstep'[i])
    /\ UNCHANGED <<cfg, outcome, pchild, reported>>

\* The child of a stage before Aligning exits with status 0 (the ? lets the
\* sequence go on) and the child of the next stage is forked.
stage_complete(i) ==
    /\ UNCHANGED notPipe
    /\ outcome[i] = "InFlight" /\ pstep[i] \in 1..4 /\ pchild[i] = "running"
    /\ pstep' = [pstep EXCEPT ![i] = pstep[i] + 1]
    /\ prepared' = [prepared EXCEPT
           ![i] = CASE pstep[i] = 1 -> @ \cup {"query"}
                    [] pstep[i] = 2 -> @ \cup {"target"}
                    [] OTHER -> @]
    /\ indexed' = [indexed EXCEPT
           ![i] = CASE pstep[i] = 3 -> @ \cup {"query"}
                    [] pstep[i] = 4 -> @ \cup {"target"}
                    [] OTHER -> @]
    /\ cmdP' = [cmdP EXCEPT ![i] = SpawnArgs(i, pstep'[i])]
    /\ files' = SpawnFiles(StageOutput(files, i, pstep[i]), i, pstep'[i])
    /\ UNCHANGED <<cfg, outcome, pchild, reported>>

\* The aligner exits with status 0: the result is read, the temporary
\* artifacts are removed and the invocation is done.
align_complete(i) ==
    /\ UNCHANGED notPipe
    /\ outcome[i] = "InFlight" /\ pstep[i] = 5 /\ pchild[i] = "running"
    /\ pstep' = [pstep EXCEPT ![i] = 6]
    /\ outcome' = [outcome EXCEPT ![i] = "Done"]
    /\ pchild' = [pchild EXCEPT ![i] = "exited"]
    /\ files' = Cleanup(files, i)
    /\ UNCHANGED <<cfg, prepared, indexed, cmdP, reported>>

\* A failing stage that leaves its artifacts behind.
stage_fail_no_cleanup(i) ==
    /\ UNCHANGED notPipe
    /\ outcome[i] = "InFlight" /\ pstep[i] \in 1..5 /\ pchild[i] = "running"
    /\ outcome' = [outcome EXCEPT ![i] = "Failed"]
    /\ pchild' = [pchild EXCEPT ![i] = "failed"]
    /\ reported' = [reported EXCEPT ![i] = <<"StageError", StageOf(pstep[i])>>]
    /\ UNCHANGED <<cfg, pstep, prepared, indexed, cmdP, files>>

\* The child of a stage crashes or exits with a non-zero status: the
\* invocation fails at that stage and its artifacts are removed.
stage_fail(i) ==
    /\ UNCHANGED notPipe
    /\ outcome[i] = "InFlight" /\ pstep[i] \in 1..5 /\ pchild[i] = "running"
    /\ outcome' = [outcome EXCEPT ![i] = "Failed"]
    /\ pchild' = [pchild EXCEPT ![i] = "failed"]
    /\ reported' = [reported EXCEPT ![i] = <<"StageError", StageOf(pstep[i])>>]
    /\ files' = Cleanup(files, i)
    /\ UNCHANGED <<cfg, pstep, prepared, indexed, cmdP>>

\* A timeout that gives up on the child without killing it.
Timeout_no_kill(i) ==
    /\ UNCHANGED notPipe
    /\ cfg[i].timeout
    /\ outcome[i] = "InFlight" /\ pchild[i] = "running"
    /\ outcome' = [outcome EXCEPT ![i] = "TimedOut"]
    /\ reported' = [reported EXCEPT ![i] = <<"TimeoutError", StageOf(pstep[i])>>]
    /\ files' = Cleanup(files, i)
    /\ UNCHANGED <<cfg, pstep, pchild, prepared, indexed, cmdP>>

\* The timeout elapses while the child of a stage is running: the child is
\* killed and the invocation ends with TimeoutError.
Timeout(i) ==
    /\ UNCHANGED notPipe
    /\ cfg[i].timeout
    /\ outcome[i] = "InFlight" /\ pchild[i] = "running"
    /\ outcome' = [outcome EXCEPT ![i] = "TimedOut"]
    /\ pchild' = [pchild EXCEPT ![i] = "killed"]
    /\ reported' = [reported EXCEPT ![i] = <<"TimeoutError", StageOf(pstep[i])>>]
    /\ files' = Cleanup(files, i)
    /\ UNCHANGED <<cfg, pstep, prepared, indexed, cmdP>>

PipeStep ==
    \/ \E i \in Invocations : validate_inputs(i)
    \/ \E i \in Invocations : validate_inputs_fail(i)
    \/ \E i \in Invocations : stage_complete(i)
    \/ \E i \in Invocations : align_complete(i)
    \/ \E i \in Invocations : stage_fail(i)
    \/ \E i \in Invocations : Timeout(i)

\* ------------------------------------------------------------------------
\* Claims on the pipeline driver
\* ------------------------------------------------------------------------

StageOrder == <<"Validating", "PreparingQueryDB", "PreparingTargetDB",
                "Indexing", "Aligning", "Done">>

RankOf(st) == CHOOSE k \in 1..Len(StageOrder) : StageOrder[k] = st

\* A stage is left only for the stage that follows it, or for Failed or
\* TimedOut; a terminal state is never left.
StageTransition(i) ==
    Stage(i)' # Stage(i) =>
        /\ outcome[i] = "InFlight"
        /\ \/ Stage(i)' \in {"Failed", "TimedOut"}
           \/ RankOf(Stage(i)') = RankOf(Stage(i)) + 1

\* C7: the stages of an invocation are visited in the order Validating,
\* PreparingQueryDB, PreparingTargetDB, Indexing, Aligning, Done; indexing
\* starts only with both databases prepared and alignment only with both
\* indices built.
C7_StageOrder ==
    /\ [][\A i \in Invocations : StageTransition(i)]_vars
    /\ [](\A i \in Invocations :
            /\ pstep[i] >= 2 => "query" \in prepared[i]
            /\ pstep[i] >= 3 => prepared[i] = {"query", "target"}
            /\ pstep[i] >= 4 => "query" \in indexed[i]
            /\ pstep[i] >= 5 => indexed[i] = {"query", "target"}
            /\ outcome[i] = "Done" => pstep[i] = 6)

\* C7 witness: an invocation went through every stage and is done.
C7_Witness ==
    \E i \in Invocations :
        /\ Stage(i) = "Done"
        /\ prepared[i] = {"query", "target"}
        /\ indexed[i] = {"query", "target"}

\* The step into TimedOut: from an in-flight stage with a running child and
\* a timeout configured; the child is killed and TimeoutError names the stage.
TimedOutStep(i) ==
    (outcome[i]' = "TimedOut" /\ outcome[i] # "TimedOut") =>
        /\ outcome[i] = "InFlight"
        /\ cfg[i].timeout
        /\ pchild[i] = "running"
        /\ pchild[i]' = "killed"
        /\ pstep[i]' = pstep[i]
        /\ reported[i]' = <<"TimeoutError", StageOf(pstep[i])>>

\* C8: TimedOut is entered only on a timeout of a stage whose child is
\* running; the child is then killed and TimeoutError names the stage; an
\* invocation with a timeout configured does not stay in flight forever.
C8_TimeoutKillsAndReports ==
    /\ [][\A i \in Invocations : TimedOutStep(i)]_vars
    /\ \A i \in Invocations :
          [](cfg[i].timeout /\ pchild[i] = "running" => <>(outcome[i] # "InFlight"))

\* C8 witness: the aligner was running when the timeout elapsed; it has been
\* killed and TimeoutError names the Aligning stage.
C8_Witness ==
    \E i \in Invocations :
        /\ outcome[i] = "TimedOut"
        /\ pchild[i] = "killed"
        /\ reported[i] = <<"TimeoutError", "Aligning">>

FatalFailureStep(i) ==
    /\ (pchild[i] = "running" /\ pchild[i]' = "failed") =>
          /\ outcome[i] = "InFlight"
          /\ outcome[i]' = "Failed"
          /\ reported[i]' = <<"StageError", StageOf(pstep[i])>>
          /\ pstep[i]' = pstep[i]
    /\ outcome[i] = "Failed" =>
          /\ outcome[i]' = "Failed"
          /\ pstep[i]' = pstep[i]
          /\ pchild[i]' = pchild[i]
          /\ reported[i]' = reported[i]
    /\ pstep[i]' \in {pstep[i], pstep[i] + 1}

\* C20: when the child of a stage fails the invocation becomes Failed and
\* the error names that stage; a failed invocation starts no later stage,
\* and the stage counter only moves forward by one, so no stage is run a
\* second time.
C20_FatalStageFailure ==
    /\ [][\A i \in Invocations : FatalFailureStep(i)]_vars
    /\ [](\A i \in Invocations :
            pchild[i] = "failed" =>
                /\ outcome[i] = "Failed"
                /\ reported[i] = <<"StageError", StageOf(pstep[i])>>)

\* C20 witness: the child of the second index construction failed; the
\* invocation is Failed in Indexing and never reached Aligning.
C20_Witness ==
    \E i \in Invocations :
        /\ pchild[i] = "failed"
        /\ pstep[i] = 4
        /\ outcome[i] = "Failed"
        /\ reported[i] = <<"StageError", "Indexing">>
        /\ indexed[i] = {"query"}

\* C10: two invocations that have their aligner running use different
\* intermediate files and different temp directories, and each has passed
\* a temp directory to the aligner.
C10_TempPathsUnique ==
    \A i, j \in Invocations :
        (i # j /\ Stage(i) = "Aligning" /\ Stage(j) = "Aligning") =>
            /\ TempAlnPath(i) # TempAlnPath(j)
            /\ AlignerTempDir(i) # AlignerTempDir(j)
            /\ cmdP[i] # "None"

\* ------------------------------------------------------------------------
\* In-process callback APIs: fastga_align_streaming with its hook
\* fastga_process_alignment (fastga_embedded.c) and
\* fastga_align_with_callback with its hook Stream_Aln_Overlap
\* (fastga_stream.c), called by concurrent threads of one process
\* ------------------------------------------------------------------------

Threads == 1..NumThreads

StreamContext(callback, a, f) ==
    [callback |-> callback, alignment_count |-> a, filtered_count |-> f]

InitCb ==
    /\ tpc = [t \in Threads |-> "idle"]
    /\ tapi = [t \in Threads |-> "none"]
    /\ g_stream_context = 0
    /\ g_callback = 0
    /\ g_user_data = 0
    /\ ctx = [t \in Threads |-> StreamContext(0, 0, 0)]
    /\ produced = [t \in Threads |-> 0]
    /\ delivered = {}
    /\ hook = <<>>
    /\ tally = [t \in Threads |-> [seen |-> 0, kept |-> 0]]

\* fastga_align_streaming up to the alignment: fastga_stream_init (-1 is
\* returned if its malloc fails), then the context is stored in the
\* global. cb: the callback argument is not NULL.
fastga_align_streaming(t, cb, malloc_ok) ==
    /\ UNCHANGED notCb
    /\ tpc[t] = "idle"
    /\ tapi' = [tapi EXCEPT ![t] = "streaming"]
    /\ IF malloc_ok
       THEN /\ ctx' = [ctx EXCEPT ![t] = StreamContext(IF cb THEN t ELSE 0, 0, 0)]
            /\ g_stream_context' = t
            /\ tpc' = [tpc EXCEPT ![t] = "running"]
       ELSE /\ tpc' = [tpc EXCEPT ![t] = "done"]
            /\ UNCHANGED <<ctx, g_stream_context>>
    /\ UNCHANGED <<g_callback, g_user_data, produced, delivered, hook, tally>>

\* fastga_process_alignment that counts the alignment before it looks for
\* a callback.
fastga_process_alignment_counts_first(t, result) ==
    /\ UNCHANGED notCb
    /\ tpc[t] = "running" /\ tapi[t] = "streaming"
    /\ produced[t] < MaxAligns
    /\ produced' = [produced EXCEPT ![t] = @ + 1]
    /\ LET c == g_stream_context
           installed == IF c = 0 THEN FALSE ELSE ctx[c].callback # 0
       IN /\ hook' = <<[api |-> "fastga_process_alignment", producer |-> t,
                        n |-> produced[t] + 1, context |-> c, installed |-> installed,
                        result |-> result, args |-> TRUE, of |-> FALSE,
                        wrote |-> FALSE,
                        ret |-> IF installed /\ result = 0 THEN 0 ELSE 1]>>
          /\ IF c = 0
             THEN UNCHANGED <<ctx, delivered, tally>>
             ELSE IF ~installed
             THEN /\ ctx' = [ctx EXCEPT ![c] =
                                StreamContext(@.callback, @.alignment_count + 1,
                                              @.filtered_count)]
                  /\ UNCHANGED <<delivered, tally>>
             ELSE /\ ctx' = [ctx EXCEPT ![c] =
                                StreamContext(@.callback, @.alignment_count + 1,
                                              IF result = 0 THEN @.filtered_count + 1
                                                            ELSE @.filtered_count)]
                  /\ delivered' = delivered \cup
                         {[producer |-> t, callback |-> ctx[c].callback, user_data |-> c]}
                  /\ tally' = [tally EXCEPT ![c] =
                                  [seen |-> @.seen + 1,
                                   kept |-> IF result = 0 THEN @.kept ELSE @.kept + 1]]
    /\ UNCHANGED <<tpc, tapi, g_stream_context, g_callback, g_user_data>>

\* The hook, called for an alignment that invocation t produced; result is
\* what the callback returns if it is called. With no context or no
\* callback in it 1 is returned at once.
fastga_process_alignment(t, result) ==
    /\ UNCHANGED notCb
    /\ tpc[t] = "running" /\ tapi[t] = "streaming"
    /\ produced[t] < MaxAligns
    /\ produced' = [produced EXCEPT ![t] = @ + 1]
    /\ LET c == g_stream_context
           installed == IF c = 0 THEN FALSE ELSE ctx[c].callback # 0
       IN /\ hook' = <<[api |-> "fastga_process_alignment", producer |-> t,
                        n |-> produced[t] + 1, context |-> c, installed |-> installed,
                        result |-> result, args |-> TRUE, of |-> FALSE,
                        wrote |-> FALSE,
                        ret |-> IF installed /\ result = 0 THEN 0 ELSE 1]>>
          /\ IF ~installed
             THEN UNCHANGED <<ctx, delivered, tally>>
             ELSE /\ ctx' = [ctx EXCEPT ![c] =
                                StreamContext(@.callback, @.alignment_count + 1,
                                              IF result = 0 THEN @.filtered_count + 1
                                                            ELSE @.filtered_count)]
                  /\ delivered' = delivered \cup
                         {[producer |-> t, callback |-> ctx[c].callback, user_data |-> c]}
                  /\ tally' = [tally EXCEPT ![c] =
                                  [seen |-> @.seen + 1,
                                   kept |-> IF result = 0 THEN @.kept ELSE @.kept + 1]]
    /\ UNCHANGED <<tpc, tapi, g_stream_context, g_callback, g_user_data>>

\* fastga_align_streaming after the alignment: the global is reset and the
\* context freed.
fastga_align_streaming_return(t) ==
    /\ UNCHANGED notCb
    /\ tpc[t] = "running" /\ tapi[t] = "streaming"
    /\ g_stream_context' = 0
    /\ tpc' = [tpc EXCEPT ![t] = "done"]
    /\ UNCHANGED <<tapi, g_callback, g_user_data, ctx, produced, delivered, hook, tally>>

\* fastga_align_with_callback: g_callback = callback (cb: it is not NULL)
fastga_align_with_callback(t, cb) ==
    /\ UNCHANGED notCb
    /\ tpc[t] = "idle"
    /\ tapi' = [tapi EXCEPT ![t] = "callback"]
    /\ g_callback' = IF cb THEN t ELSE 0
    /\ tpc' = [tpc EXCEPT ![t] = "set_user_data"]
    /\ UNCHANGED <<g_stream_context, g_user_data, ctx, produced, delivered, hook, tally>>

\* fastga_align_with_callback: g_user_data = user_data
fastga_align_with_callback_user_data(t) ==
    /\ UNCHANGED notCb
    /\ tpc[t] = "set_user_data"
    /\ g_user_data' = t
    /\ tpc' = [tpc EXCEPT ![t] = "running"]
    /\ UNCHANGED <<tapi, g_stream_context, g_callback, ctx, produced, delivered, hook,
                   tally>>

\* Stream_Aln_Overlap that writes the overlap before it asks the callback.
Stream_Aln_Overlap_writes_first(t, of, args, result) ==
    /\ UNCHANGED notCb
    /\ tpc[t] = "running" /\ tapi[t] = "callback"
    /\ produced[t] < MaxAligns
    /\ produced' = [produced EXCEPT ![t] = @ + 1]
    /\ LET called == g_callback # 0 /\ args
       IN /\ delivered' = IF called
                          THEN delivered \cup {[producer |-> t, callback |-> g_callback,
                                                user_data |-> g_user_data]}
                          ELSE delivered
          /\ hook' = <<[api |-> "Stream_Aln_Overlap", producer |-> t,
                        n |-> produced[t] + 1, context |-> g_callback, installed |-> called,
                        result |-> result, args |-> args, of |-> of,
                        wrote |-> of,
                        ret |-> IF called /\ result = 0 THEN 0 ELSE 1]>>
    /\ UNCHANGED <<tpc, tapi, g_stream_context, g_callback, g_user_data, ctx, tally>>

\* Stream_Aln_Overlap(of, ovl, aln, gdb1, gdb2) for an overlap that
\* invocation t produced. of: the output file is not NULL; args: ovl and
\* aln are not NULL; result: what the callback returns if it is called.
Stream_Aln_Overlap(t, of, args, result) ==
    /\ UNCHANGED notCb
    /\ tpc[t] = "running" /\ tapi[t] = "callback"
    /\ produced[t] < MaxAligns
    /\ produced' = [produced EXCEPT ![t] = @ + 1]
    /\ LET called == g_callback # 0 /\ args
       IN /\ delivered' = IF called
                          THEN delivered \cup {[producer |-> t, callback |-> g_callback,
                                                user_data |-> g_user_data]}
                          ELSE delivered
          /\ hook' = <<[api |-> "Stream_Aln_Overlap", producer |-> t,
                        n |-> produced[t] + 1, context |-> g_callback, installed |-> called,
                        result |-> result, args |-> args, of |-> of,
                        wrote |-> of /\ ~(called /\ result = 0),
                        ret |-> IF called /\ result = 0 THEN 0 ELSE 1]>>
    /\ UNCHANGED <<tpc, tapi, g_stream_context, g_callback, g_user_data, ctx, tally>>

\* fastga_align_with_callback returns (0, or -1 when a Read_GDB failed);
\* the globals keep their values.
fastga_align_with_callback_return(t) ==
    /\ UNCHANGED notCb
    /\ tpc[t] = "running" /\ tapi[t] = "callback"
    /\ tpc' = [tpc EXCEPT ![t] = "done"]
    /\ UNCHANGED <<tapi, g_stream_context, g_callback, g_user_data, ctx, produced,
                   delivered, hook, tally>>

CbStep ==
    \/ \E t \in Threads, cb, malloc_ok \in BOOLEAN : fastga_align_streaming(t, cb, malloc_ok)
    \/ \E t \in Threads, result \in {0, 1} : fastga_process_alignment(t, result)
    \/ \E t \in Threads : fastga_align_streaming_return(t)
    \/ \E t \in Threads, cb \in BOOLEAN : fastga_align_with_callback(t, cb)
    \/ \E t \in Threads : fastga_align_with_callback_user_data(t)
    \/ \E t \in Threads, of, args \in BOOLEAN, result \in {0, 1} :
          Stream_Aln_Overlap(t, of, args, result)
    \/ \E t \in Threads : fastga_align_with_callback_return(t)

\* No other thread is inside one of the two entry points: the calls are
\* made one after the other, here in the order of the thread numbers.
Alone(t) ==
    \A u \in Threads \ {t} : tpc[u] = IF u < t THEN "done" ELSE "idle"

\* CbStep for calls made one after the other.
SequentialCbStep ==
    \/ \E t \in Threads, cb, malloc_ok \in BOOLEAN :
          Alone(t) /\ fastga_align_streaming(t, cb, malloc_ok)
    \/ \E t \in Threads, result \in {0, 1} : Alone(t) /\ fastga_process_alignment(t, result)
    \/ \E t \in Threads : Alone(t) /\ fastga_align_streaming_return(t)
    \/ \E t \in Threads, cb \in BOOLEAN : Alone(t) /\ fastga_align_with_callback(t, cb)
    \/ \E t \in Threads : Alone(t) /\ fastga_align_with_callback_user_data(t)
    \/ \E t \in Threads, of, args \in BOOLEAN, result \in {0, 1} :
          Alone(t) /\ Stream_Aln_Overlap(t, of, args, result)
    \/ \E t \in Threads : Alone(t) /\ fastga_align_with_callback_return(t)

\* C11 (as claimed): every alignment is delivered to the callback and the
\* user data of the invocation that produced it, and the counters of an
\* invocation count only its own alignments.
C11_NoInterference ==
    /\ \A d \in delivered : d.callback = d.producer /\ d.user_data = d.producer
    /\ \A t \in Threads :
          /\ ctx[t].alignment_count <= produced[t]
          /\ ctx[t].filtered_count <= ctx[t].alignment_count

\* ------------------------------------------------------------------------
\* Query-wise API: align_queries_streaming calls align_single_query for
\* every query contig in turn (fastga_query_api.c)
\* ------------------------------------------------------------------------

\* At most one contig of each database is masked (boff < 0).
QapiConfigs ==
    {c \in [nq : 1..NumQueries, nt : 1..MaxTargets,
            masked_q : 0..NumQueries, masked_t : 0..MaxTargets,
            callback : BOOLEAN] :
        c.masked_q <= c.nq /\ c.masked_t <= c.nt}

\* Contigs are numbered from 0 in the code; masked_q/masked_t = k > 0 masks
\* contig k - 1.
\* For a query index outside the contig array the boff is whatever was read
\* there (qboff).
Masked(q, t) ==
    \/ IF q >= 0 /\ q < qcfg.nq THEN qcfg.masked_q = q + 1 ELSE qboff < 0
    \/ qcfg.masked_t = t + 1

\* result->capacity after the calloc and malloc of align_single_query (100
\* in the code, scaled so that the set outgrows it within MaxTargets).
InitialCapacity == 1

InitQapi ==
    /\ qcfg \in QapiConfigs
    /\ qpc = "idle"
    /\ qq = 0
    /\ target_idx = 0
    /\ count = 0
    /\ total_alignments = 0
    /\ calls = <<>>
    /\ alignments = <<>>
    /\ capacity = 0
    /\ results = "none"
    /\ qboff = 0

IdleQapi ==
    /\ qcfg = [nq |-> 1, nt |-> 1, masked_q |-> 0, masked_t |-> 0, callback |-> FALSE]
    /\ qpc = "idle" /\ qq = 0 /\ target_idx = 0 /\ count = 0
    /\ total_alignments = 0 /\ calls = <<>>
    /\ alignments = <<>> /\ capacity = 0 /\ results = "none" /\ qboff = 0

\* align_queries_streaming is entered: total_alignments = 0, q = 0.
align_queries_streaming ==
    /\ UNCHANGED notQapi
    /\ qpc = "idle"
    /\ qpc' = "outer"
    /\ qq' = 0
    /\ total_alignments' = 0
    /\ UNCHANGED <<qcfg, target_idx, count, calls, alignments, capacity, results, qboff>>

\* The loop over the queries: align_single_query(q) is called and allocates
\* its empty result set, or the loop ends and total_alignments is returned.
align_queries_streaming_loop ==
    /\ UNCHANGED notQapi
    /\ qpc = "outer"
    /\ IF qq < qcfg.nq
       THEN /\ qpc' = "inner"
            /\ target_idx' = 0
            /\ count' = 0
            /\ alignments' = <<>>
            /\ capacity' = InitialCapacity
            /\ results' = "set"
       ELSE /\ qpc' = "returned"
            /\ UNCHANGED <<target_idx, count, alignments, capacity, results>>
    /\ UNCHANGED <<qcfg, qq, total_alignments, calls, qboff>>

\* align_single_query_return that does not go to the next query.
align_single_query_return_same_query ==
    /\ qpc' = IF qpc = "single" THEN "single_returned" ELSE "outer"
    /\ total_alignments' = IF qpc = "single" THEN total_alignments
                           ELSE total_alignments + count
    /\ qq' = qq

\* align_single_query returns: to align_queries_streaming, where the count
\* is added and the loop goes to the next query, or to its direct caller.
align_single_query_return ==
    /\ qpc' = IF qpc = "single" THEN "single_returned" ELSE "outer"
    /\ total_alignments' = IF qpc = "single" THEN total_alignments
                           ELSE total_alignments + count
    /\ qq' = IF qpc = "single" THEN qq ELSE qq + 1

\* align_single_query that adds the alignment to the set before it asks
\* the callback.
align_single_query_add_first(result, realloc_ok) ==
    /\ UNCHANGED notQapi
    /\ qpc \in {"inner", "single"}
    /\ IF target_idx >= qcfg.nt
       THEN /\ align_single_query_return
            /\ UNCHANGED <<target_idx, count, calls, alignments, capacity, results>>
       ELSE IF Masked(qq, target_idx)
       THEN /\ target_idx' = target_idx + 1
            /\ UNCHANGED <<qpc, qq, count, total_alignments, calls, alignments,
                           capacity, results>>
       ELSE /\ calls' = IF qcfg.callback
                        THEN Append(calls, <<qq, target_idx, result>>)
                        ELSE calls
            /\ IF count >= capacity /\ ~realloc_ok
               THEN /\ qpc' = IF qpc = "single" THEN "single_returned" ELSE "outer"
                    /\ qq' = IF qpc = "single" THEN qq ELSE qq + 1
                    /\ results' = "NULL"
                    /\ alignments' = <<>>
                    /\ count' = 0
                    /\ capacity' = 0
                    /\ UNCHANGED <<target_idx, total_alignments>>
               ELSE /\ capacity' = IF count >= capacity THEN capacity * 2 ELSE capacity
                    /\ alignments' = Append(alignments, <<qq, target_idx>>)
                    /\ count' = count + 1
                    /\ IF qcfg.callback /\ result = 0
                       THEN /\ qpc' = IF qpc = "single" THEN "single_returned" ELSE "outer"
                            /\ total_alignments' = IF qpc = "single" THEN total_alignments
                                                   ELSE total_alignments + count + 1
                            /\ qq' = IF qpc = "single" THEN qq ELSE qq + 1
                            /\ UNCHANGED <<target_idx, results>>
                       ELSE /\ target_idx' = target_idx + 1
                            /\ UNCHANGED <<qpc, qq, total_alignments, results>>
    /\ UNCHANGED <<qcfg, qboff>>

\* One turn of the loop over the targets in align_single_query; result is
\* what the callback returns if it is called, realloc_ok whether realloc
\* succeeds if the set has to grow.
align_single_query(result, realloc_ok) ==
    /\ UNCHANGED notQapi
    /\ qpc \in {"inner", "single"}
    /\ IF target_idx >= qcfg.nt
       THEN /\ align_single_query_return
            /\ UNCHANGED <<target_idx, count, calls, alignments, capacity, results>>
       ELSE IF Masked(qq, target_idx)
       THEN /\ target_idx' = target_idx + 1
            /\ UNCHANGED <<qpc, qq, count, total_alignments, calls, alignments,
                           capacity, results>>
       ELSE IF qcfg.callback /\ result = 0
       THEN /\ calls' = Append(calls, <<qq, target_idx, result>>)
            /\ align_single_query_return
            /\ UNCHANGED <<target_idx, count, alignments, capacity, results>>
       ELSE /\ calls' = IF qcfg.callback
                        THEN Append(calls, <<qq, target_idx, result>>)
                        ELSE calls
            /\ IF count >= capacity /\ ~realloc_ok
               THEN /\ qpc' = IF qpc = "single" THEN "single_returned" ELSE "outer"
                    /\ qq' = IF qpc = "single" THEN qq ELSE qq + 1
                    /\ results' = "NULL"
                    /\ alignments' = <<>>
                    /\ count' = 0
                    /\ capacity' = 0
                    /\ UNCHANGED <<target_idx, total_alignments>>
               ELSE /\ capacity' = IF count >= capacity THEN capacity * 2 ELSE capacity
                    /\ alignments' = Append(alignments, <<qq, target_idx>>)
                    /\ count' = count + 1
                    /\ target_idx' = target_idx + 1
                    /\ UNCHANGED <<qpc, qq, total_alignments, results>>
    /\ UNCHANGED <<qcfg, qboff>>

\* A direct call align_single_query(query_gdb, query_idx, ...), up to the
\* loop over the targets: the result set is allocated (alloc_ok), NULL is
\* returned if query_idx >= ncontig, else &contigs[query_idx] is taken. For
\* a negative query_idx the boff of that contig is read outside the array:
\* the read faults or yields a negative or a non-negative value (garbage).
align_single_query_entry(query_idx, alloc_ok, garbage) ==
    /\ UNCHANGED notQapi
    /\ qpc = "idle"
    /\ query_idx >= 0 => garbage = "nonnegative"
    /\ qq' = query_idx
    /\ target_idx' = 0
    /\ count' = 0
    /\ alignments' = <<>>
    /\ IF ~alloc_ok \/ query_idx >= qcfg.nq
       THEN /\ qpc' = "single_returned"
            /\ results' = "NULL"
            /\ capacity' = 0
            /\ qboff' = 0
       ELSE /\ qpc' = IF garbage = "fault" THEN "fault" ELSE "single"
            /\ results' = "set"
            /\ capacity' = InitialCapacity
            /\ qboff' = IF garbage = "negative" THEN -1 ELSE 0
    /\ UNCHANGED <<qcfg, total_alignments, calls>>

QapiStep ==
    \/ align_queries_streaming
    \/ align_queries_streaming_loop
    \/ \E query_idx \in -1..NumQueries, alloc_ok \in BOOLEAN,
          garbage \in {"negative", "nonnegative", "fault"} :
          align_single_query_entry(query_idx, alloc_ok, garbage)
    \/ \E result \in {0, 1}, realloc_ok \in BOOLEAN : align_single_query(result, realloc_ok)

\* The query whose result set is being built or was returned last.
CurQuery == IF qpc \in {"inner", "single", "single_returned"} THEN qq ELSE qq - 1

\* The unmasked targets below n for query q, in ascending order.
RECURSIVE UnmaskedBelow(_, _)
UnmaskedBelow(q, n) ==
    IF n = 0 THEN <<>>
    ELSE IF Masked(q, n - 1) THEN UnmaskedBelow(q, n - 1)
    ELSE Append(UnmaskedBelow(q, n - 1), <<q, n - 1>>)

\* C27: the callback is called in query-major order: the query ids are
\* non-decreasing, within one query the target ids are strictly
\* increasing, and while a query is processed no later query has been
\* passed to the callback.
C27_QueryMajorDelivery ==
    /\ \A i, j \in 1..Len(calls) :
          i < j => /\ calls[i][1] <= calls[j][1]
                   /\ calls[i][1] = calls[j][1] => calls[i][2] < calls[j][2]
    /\ \A i \in 1..Len(calls) : calls[i][1] <= qq

\* Two targets of query 0 and then a target of query 1 were delivered.
C27_Witness ==
    /\ Len(calls) >= 3
    /\ calls[1] = <<0, 0, 1>>
    /\ calls[2] = <<0, 1, 1>>
    /\ calls[3][1] = 1

\* C28: the result set of align_single_query, while it is built and when
\* it is returned, holds the unmasked targets visited so far in ascending
\* order, all with the requested query id; with a callback these are the
\* alignments it accepted, the alignment it rejected is not in the set and
\* no target after it is visited; count is the number of alignments held
\* and never exceeds capacity; without a callback the returned set holds
\* every unmasked target.
C28_SingleQueryResult ==
    results = "set" /\ qpc \notin {"idle", "fault"} =>
        /\ alignments = UnmaskedBelow(CurQuery, target_idx)
        /\ count = Len(alignments)
        /\ count <= capacity
        /\ target_idx <= qcfg.nt
        /\ \A i \in 1..Len(alignments) : alignments[i][1] = CurQuery
        /\ qcfg.callback =>
              /\ \A i \in 1..Len(alignments) :
                    \E k \in 1..Len(calls) : calls[k] = <<CurQuery, alignments[i][2], 1>>
              /\ \A k \in 1..Len(calls) :
                    calls[k][1] = CurQuery /\ calls[k][3] = 0 =>
                        /\ \A i \in 1..Len(alignments) : alignments[i][2] # calls[k][2]
                        /\ target_idx = calls[k][2]
                        /\ qpc \notin {"inner", "single"}
        /\ ~qcfg.callback /\ qpc \notin {"inner", "single"} => target_idx = qcfg.nt

\* The set of a query was returned after the callback accepted its first
\* target and rejected its second.
C28_Witness ==
    /\ results = "set"
    /\ qpc = "outer"
    /\ qcfg.callback
    /\ alignments = <<<<CurQuery, 0>>>>
    /\ \E k \in 1..Len(calls) : calls[k] = <<CurQuery, 1, 0>>

\* C34 (as claimed): a direct call of align_single_query with a query_idx
\* outside [0, ncontig), negative ones included, returns NULL, reads no
\* contig and never invokes the callback.
C34_IndexValidation ==
    qpc \in {"single", "single_returned", "fault"} /\ (qq < 0 \/ qq >= qcfg.nq) =>
        /\ qpc = "single_returned"
        /\ results = "NULL"
        /\ \A i \in 1..Len(calls) : calls[i][1] # qq

\* C12 (as claimed): once the callback has returned the stop value it is not
\* called again, neither for the current query nor for a later one.
C12_StopIsFinal ==
    \A i, j \in 1..Len(calls) : i < j => calls[i][3] # 0

\* ------------------------------------------------------------------------
\* aln_open and aln_get_seq_name: the handle loads the two databases named
\* in the container with Read_GDB
\* ------------------------------------------------------------------------

\* The scaffold headers of a database: hoff of every scaffold and hdrtot.
\* Database "B" has a scaffold whose hoff lies outside the header block.
GdbHeaders(name) ==
    IF name = "A"
    THEN [nscaff |-> 2, hoff |-> <<0, 1>>, hdrtot |-> 2]
    ELSE [nscaff |-> 2, hoff |-> <<0, 5>>, hdrtot |-> 1]

InitOpen ==
    /\ oNames \in {<<"A", "A">>, <<"A", "B">>}
    /\ oCount \in 0..MaxRecs
    /\ oDisk = {"A", "B"}
    /\ oHandle = "none"
    /\ oGdb = <<>>
    /\ oReported = <<>>
    /\ oName = <<>>

IdleOpen ==
    /\ oNames = <<"A", "A">> /\ oCount = 0 /\ oDisk = {"A", "B"}
    /\ oHandle = "none" /\ oGdb = <<>> /\ oReported = <<>> /\ oName = <<>>

\* A database file is deleted or moved after the container was written.
remove_gdb(name) ==
    /\ UNCHANGED notOpen
    /\ name \in oDisk
    /\ oDisk' = oDisk \ {name}
    /\ UNCHANGED <<oNames, oCount, oHandle, oGdb, oReported, oName>>

\* aln_open, the container itself being readable: Read_GDB of db1_name, and
\* of db2_name unless it is the same name; NULL if a Read_GDB fails.
aln_open_handle ==
    /\ UNCHANGED notOpen
    /\ oHandle = "none"
    /\ IF oNames[1] \notin oDisk
       THEN /\ oHandle' = "NULL"
            /\ UNCHANGED <<oGdb, oReported>>
       ELSE IF oNames[2] = oNames[1]
       THEN /\ oHandle' = "open"
            /\ oGdb' = <<oNames[1], oNames[1]>>
            /\ oReported' = <<oCount>>
       ELSE IF oNames[2] \notin oDisk
       THEN /\ oHandle' = "NULL"
            /\ UNCHANGED <<oGdb, oReported>>
       ELSE /\ oHandle' = "open"
            /\ oGdb' = <<oNames[1], oNames[2]>>
            /\ oReported' = <<oCount>>
    /\ UNCHANGED <<oNames, oCount, oDisk, oName>>

\* No name: the NULL aln_get_seq_name returns.
NoName == [db |-> "NULL", hoff |-> 0]

\* aln_get_seq_name on an open handle: the header of scaffold seq_id of
\* the database which_db selects (gdb1 for 0, gdb2 otherwise), NULL if
\* seq_id or its hoff is out of range.
SeqName(gdbs, seq_id, which_db) ==
    LET gdb == IF which_db = 0 THEN gdbs[1] ELSE gdbs[2]
        h == GdbHeaders(gdb)
    IN IF seq_id < 0 \/ seq_id >= h.nscaff
       THEN NoName
       ELSE IF h.hoff[seq_id + 1] < 0 \/ h.hoff[seq_id + 1] >= h.hdrtot
       THEN NoName
       ELSE [db |-> gdb, hoff |-> h.hoff[seq_id + 1]]

\* aln_get_seq_name that also moves the reader's cursor.
aln_get_seq_name_moves_cursor(seq_id, which_db) ==
    /\ UNCHANGED <<schemaVars, streamVars, pipeVars, cbVars, qapiVars, execVars, extVars>>
    /\ oHandle \in {"open", "NULL"}
    /\ oName' = <<[seq_id |-> seq_id, which_db |-> which_db, handle |-> oHandle,
                   name |-> IF oHandle = "NULL" THEN NoName
                            ELSE SeqName(oGdb, seq_id, which_db)]>>
    /\ current_idx' = current_idx + 1
    /\ UNCHANGED <<gdb1, gdb2, wstate, file, written, rstate, num_alignments, ofpos,
                   readOut, lastRet>>
    /\ UNCHANGED <<oNames, oCount, oDisk, oHandle, oGdb, oReported>>

\* aln_get_seq_name(handle, seq_id, which_db), with the handle aln_open
\* returned (NULL if it failed); the call and its result are kept in oName.
aln_get_seq_name(seq_id, which_db) ==
    /\ UNCHANGED notOpen
    /\ oHandle \in {"open", "NULL"}
    /\ oName' = <<[seq_id |-> seq_id, which_db |-> which_db, handle |-> oHandle,
                   name |-> IF oHandle = "NULL" THEN NoName
                            ELSE SeqName(oGdb, seq_id, which_db)]>>
    /\ UNCHANGED <<oNames, oCount, oDisk, oHandle, oGdb, oReported>>

aln_close_handle ==
    /\ UNCHANGED notOpen
    /\ oHandle = "open"
    /\ oHandle' = "closed"
    /\ UNCHANGED <<oNames, oCount, oDisk, oGdb, oReported, oName>>

OpenStep ==
    \/ \E name \in {"A", "B"} : remove_gdb(name)
    \/ aln_open_handle
    \/ \E seq_id \in -1..2, which_db \in {0, 1} : aln_get_seq_name(seq_id, which_db)
    \/ aln_close_handle

\* A file with one overlap on the reverse strand, for a reader whose names
\* are looked up while it reads.
InitLookup ==
    /\ InitStored
    /\ file.objects = <<StoredObject([aread |-> 0, abpos |-> 0, aepos |-> 1,
                                      bread |-> 1, bbpos |-> 0, bepos |-> 1,
                                      flags |-> COMP_FLAG, diffs |-> 0])>>

\* C25: aln_get_seq_name returns no name for a NULL handle, for a seq_id
\* below 0 or not below the number of scaffolds of the chosen database and
\* for a header offset outside the header block, and the stored name
\* otherwise; a lookup changes neither the handle nor the reader's cursor,
\* so the records read are those of the file whatever lookups are made.
C25_LookupIsPureAndPartial ==
    /\ [](oName # <<>> =>
            LET call == oName[1]
                h == GdbHeaders(IF call.which_db = 0 THEN oGdb[1] ELSE oGdb[2])
                none == \/ call.handle = "NULL"
                        \/ call.seq_id < 0
                        \/ call.seq_id >= h.nscaff
                        \/ h.hoff[call.seq_id + 1] < 0
                        \/ h.hoff[call.seq_id + 1] >= h.hdrtot
            IN IF none THEN call.name = NoName
               ELSE /\ call.name # NoName
                    /\ call.name.hoff = h.hoff[call.seq_id + 1]
                    /\ call.name.db = oNames[IF call.which_db = 0 THEN 1 ELSE 2])
    /\ [][oName' # oName => /\ UNCHANGED codecVars
                            /\ UNCHANGED <<oHandle, oGdb, oReported, oDisk>>]_vars
    /\ [](/\ current_idx = Len(readOut)
          /\ \A i \in 1..Len(readOut) : readOut[i] = DecodeAt(gdb1, gdb2, file, i))

\* A record was read, and the last lookup, on the second database, was
\* refused for a header offset outside the header block.
C25_Witness ==
    /\ Len(readOut) = 1
    /\ oName # <<>>
    /\ oName[1].handle = "open"
    /\ oName[1].which_db = 1
    /\ oName[1].seq_id = 1
    /\ oGdb = <<"A", "B">>
    /\ oName[1].name = NoName

\* C26 (as claimed): on an open reader the name aln_get_seq_name returns
\* for a seq_id is the same for every value of which_db.
C26_WhichDbIgnored ==
    oHandle = "open" =>
        \A seq_id \in -1..2 : SeqName(oGdb, seq_id, 0) = SeqName(oGdb, seq_id, 1)

\* C16 (as claimed): opening a readable container succeeds whether or not
\* the database files it names can still be read.
C16_OpenIsSelfContained == oHandle # "NULL"

\* ------------------------------------------------------------------------
\* Entry points that run a pipeline stage: the forking orchestrator, the
\* embedded FastGA main and the wrapper stubs
\* ------------------------------------------------------------------------

CallerPid == 0

Execution(stage, entry, pid) == [stage |-> stage, entry |-> entry, pid |-> pid]

InitExec ==
    /\ executions = <<>>
    /\ forked = 0
    /\ entryRet = <<>>

\* fork_fatogdb: FAtoGDB (fatogdb_main) in a newly forked child process.
fork_fatogdb ==
    /\ UNCHANGED notExec
    /\ Len(executions) < MaxCalls
    /\ forked' = forked + 1
    /\ executions' = Append(executions, Execution("PrepareDb", "fatogdb_main", forked + 1))
    /\ UNCHANGED entryRet

\* fork_gixmake: GIXmake (gixmake_main) in a newly forked child process.
fork_gixmake ==
    /\ UNCHANGED notExec
    /\ Len(executions) < MaxCalls
    /\ forked' = forked + 1
    /\ executions' = Append(executions, Execution("BuildIndex", "gixmake_main", forked + 1))
    /\ UNCHANGED entryRet

\* run_fastga_alignment: the aligner in a child process of its own.
run_fastga_alignment ==
    /\ UNCHANGED notExec
    /\ Len(executions) < MaxCalls
    /\ forked' = forked + 1
    /\ executions' = Append(executions, Execution("Align", "FastGA", forked + 1))
    /\ UNCHANGED entryRet

\* fastga_run_embedded: stdout is captured around a call of fastga_main,
\* which runs the alignment in the process of the caller.
fastga_run_embedded ==
    /\ UNCHANGED notExec
    /\ Len(executions) < MaxCalls
    /\ executions' = Append(executions, Execution("Align", "fastga_main", CallerPid))
    /\ \E ret \in {0, 1} : entryRet' = <<"fastga_run_embedded", ret>>
    /\ UNCHANGED forked

\* fastga_run_simple: return fastga_main(argc, argv), in the process of the
\* caller.
fastga_run_simple ==
    /\ UNCHANGED notExec
    /\ Len(executions) < MaxCalls
    /\ executions' = Append(executions, Execution("Align", "fastga_main", CallerPid))
    /\ \E ret \in {0, 1} : entryRet' = <<"fastga_run_simple", ret>>
    /\ UNCHANGED forked

\* fatogdb_wrapper: a stub, no stage is run, -1 is returned.
fatogdb_wrapper ==
    /\ UNCHANGED notExec
    /\ entryRet' = <<"fatogdb_wrapper", -1>>
    /\ UNCHANGED <<executions, forked>>

\* gixmake_wrapper: a stub, no stage is run, -1 is returned.
gixmake_wrapper ==
    /\ UNCHANGED notExec
    /\ entryRet' = <<"gixmake_wrapper", -1>>
    /\ UNCHANGED <<executions, forked>>

ExecStep ==
    \/ fork_fatogdb
    \/ fork_gixmake
    \/ run_fastga_alignment
    \/ fastga_run_embedded
    \/ fastga_run_simple
    \/ fatogdb_wrapper
    \/ gixmake_wrapper

\* C19 (as claimed): no stage is run by an entry point of the aligner
\* called inside the caller's process; every stage runs in a child process
\* of its own.
C19_ProcessIsolation ==
    /\ \A i \in 1..Len(executions) : executions[i].pid # CallerPid
    /\ \A i, j \in 1..Len(executions) : i # j => executions[i].pid # executions[j].pid

\* ------------------------------------------------------------------------
\* Plane-sweep filter engine: group/top-N filter, overlap sparsification,
\* reciprocal-best selection
\* ------------------------------------------------------------------------

\* A candidate record: query q, target t, query interval [qs, qe), target
\* start ts, identity in percent, block length.
Mapping(q, t, qs, qe, ts, identity, block) ==
    [q |-> q, t |-> t, qs |-> qs, qe |-> qe, ts |-> ts,
     identity |-> identity, block |-> block]

\* 100 * ln(n), rounded, for the lengths that occur.
LogLen(n) ==
    CASE n = 1 -> 0     [] n = 2 -> 69    [] n = 3 -> 110   [] n = 4 -> 139
      [] n = 50 -> 391  [] n = 150 -> 501 [] n = 200 -> 530
      [] n = 300 -> 570 [] n = 900 -> 680

\* score = identity * ln(length), length = query_end - query_start.
Score(r) == r.identity * LogLen(r.qe - r.qs)

\* The rank order: higher score, then larger block length, then lower
\* target start.
Better(a, b) ==
    \/ Score(a) > Score(b)
    \/ Score(a) = Score(b) /\ a.block > b.block
    \/ Score(a) = Score(b) /\ a.block = b.block /\ a.ts < b.ts

\* Stable insertion of r into a sequence sorted by rank.
RECURSIVE InsertByRank(_, _)
InsertByRank(sorted, r) ==
    IF sorted = <<>> THEN <<r>>
    ELSE IF Better(r, Head(sorted)) THEN <<r>> \o sorted
    ELSE <<Head(sorted)>> \o InsertByRank(Tail(sorted), r)

RECURSIVE SortByRank(_)
SortByRank(recs) ==
    IF recs = <<>> THEN <<>>
    ELSE InsertByRank(SortByRank(SubSeq(recs, 1, Len(recs) - 1)), recs[Len(recs)])

\* The first n records of one group as they arrived, not ranked.
TopN_arrival_order(recs, n) ==
    SubSeq(recs, 1, IF Len(recs) < n THEN Len(recs) ELSE n)

\* The n best records of one group, in rank order.
TopN(recs, n) ==
    LET sorted == SortByRank(recs)
    IN SubSeq(sorted, 1, IF Len(sorted) < n THEN Len(sorted) ELSE n)

\* The records the filters are tried on: four query intervals, two
\* identities, block length equal to the length or one more, two target
\* starts.
CandidatePool ==
    {Mapping(0, 0, iv[1], iv[2], ts, identity, iv[2] - iv[1] + extra) :
        iv \in {<<0, 2>>, <<0, 3>>, <<1, 4>>, <<2, 4>>},
        ts \in {0, 1}, identity \in {80, 99}, extra \in {0, 1}}

\* Query X of the end-to-end scenario: lengths 200, 150, 900, 50, 300 with
\* identities 0.99, 0.80, 0.95, 0.99, 0.85.
ScenarioX ==
    <<Mapping(0, 0, 0, 200, 0, 99, 200), Mapping(0, 0, 0, 150, 0, 80, 150),
      Mapping(0, 0, 0, 900, 0, 95, 900), Mapping(0, 0, 0, 50, 0, 99, 50),
      Mapping(0, 0, 0, 300, 0, 85, 300)>>

CandidateSeqs ==
    {ScenarioX} \cup UNION {[1..k -> CandidatePool] : k \in 0..MaxCands}

IdleFilter ==
    /\ fIn = <<>>
    /\ fCfg = [max_per_query |-> 1, max_overlap |-> MaxOverlapPct]
    /\ fGrouped = <<>>
    /\ fSparse = <<>>
    /\ fPhase = "idle"
    /\ fPending = <<>>
    /\ fAgg = {}
    /\ fFinal = {}

\* The candidates of one query and the filter configuration.
InitQueryLocal ==
    /\ fIn \in CandidateSeqs
    /\ fCfg \in [max_per_query : 1..MaxKeep, max_overlap : {MaxOverlapPct}]
    /\ fGrouped = <<>>
    /\ fSparse = <<>>
    /\ fPhase = "raw"
    /\ fPending = <<>>
    /\ fAgg = {}
    /\ fFinal = {}

\* Stage 3, the group/top-N filter on the records of one query.
group_filter ==
    /\ UNCHANGED notFilter
    /\ fPhase = "raw"
    /\ fGrouped' = TopN(fIn, fCfg.max_per_query)
    /\ fPhase' = "grouped"
    /\ UNCHANGED <<fIn, fCfg, fSparse, fPending, fAgg, fFinal>>

\* Overlap of two query intervals, and whether it exceeds the fraction
\* pct/100 of the shorter of the two.
OverlapLen(a, b) ==
    LET lo == IF a.qs > b.qs THEN a.qs ELSE b.qs
        hi == IF a.qe < b.qe THEN a.qe ELSE b.qe
    IN IF hi > lo THEN hi - lo ELSE 0

ExceedsOverlap(a, b, pct) ==
    LET la == a.qe - a.qs
        lb == b.qe - b.qs
        shorter == IF la < lb THEN la ELSE lb
    IN OverlapLen(a, b) * 100 > pct * shorter

\* Stable insertion of r into a sequence sorted by start coordinate.
RECURSIVE InsertByStart(_, _)
InsertByStart(sorted, r) ==
    IF sorted = <<>> THEN <<r>>
    ELSE IF r.qs < Head(sorted).qs THEN <<r>> \o sorted
    ELSE <<Head(sorted)>> \o InsertByStart(Tail(sorted), r)

RECURSIVE SortByStart(_)
SortByStart(recs) ==
    IF recs = <<>> THEN <<>>
    ELSE InsertByStart(SortByStart(SubSeq(recs, 1, Len(recs) - 1)), recs[Len(recs)])

\* The sweep: the records are taken by start coordinate; a record is
\* suppressed if its overlap with a higher-ranked active record exceeds
\* max_overlap, otherwise it enters the active set and the active records
\* that end before its start are evicted.
RECURSIVE Sweep(_, _, _, _)
Sweep(todo, active, kept, pct) ==
    IF todo = <<>> THEN kept
    ELSE LET r == Head(todo)
         IN IF \E a \in active : Better(a, r) /\ ExceedsOverlap(a, r, pct)
            THEN Sweep(Tail(todo), active, kept, pct)
            ELSE Sweep(Tail(todo), {a \in active : ~(a.qe < r.qs)} \cup {r},
                       Append(kept, r), pct)

Sparsify(recs, pct) == Sweep(SortByStart(recs), {}, <<>>, pct)

\* Stage 4, the overlap sparsification of the records stage 3 retained.
sparsify ==
    /\ UNCHANGED notFilter
    /\ fPhase = "grouped"
    /\ fSparse' = Sparsify(fGrouped, fCfg.max_overlap)
    /\ fPhase' = "sparse"
    /\ UNCHANGED <<fIn, fCfg, fGrouped, fPending, fAgg, fFinal>>

QueryLocalStep ==
    \/ group_filter
    \/ sparsify

\* How often record r occurs in a sequence.
Occurrences(recs, r) == Cardinality({i \in 1..Len(recs) : recs[i] = r})

\* C21: the group/top-N filter retains min(K, max_per_query) of the K
\* candidates, so all of them when K <= max_per_query; no candidate it
\* drops ranks above one it retains under the order score, block length,
\* target start; the retained records come out in rank order.
C21_TopN ==
    fPhase # "raw" =>
        /\ Len(fGrouped) = IF Len(fIn) < fCfg.max_per_query
                           THEN Len(fIn) ELSE fCfg.max_per_query
        /\ \A i \in 1..Len(fGrouped) :
              Occurrences(fGrouped, fGrouped[i]) <= Occurrences(fIn, fGrouped[i])
        /\ \A i \in 1..Len(fIn) :
              Occurrences(fGrouped, fIn[i]) < Occurrences(fIn, fIn[i]) =>
                  \A j \in 1..Len(fGrouped) : ~Better(fIn[i], fGrouped[j])
        /\ \A i, j \in 1..Len(fGrouped) : i < j => ~Better(fGrouped[j], fGrouped[i])
        /\ (fIn = ScenarioX /\ fCfg.max_per_query = 3) =>
              fGrouped = <<ScenarioX[3], ScenarioX[1], ScenarioX[5]>>

\* The scenario: of the five candidates of query X the records of length
\* 900, 200 and 300 are retained, in that order.
C21_Witness ==
    /\ fPhase = "grouped"
    /\ fIn = ScenarioX
    /\ fCfg.max_per_query = 3
    /\ Len(fGrouped) = 3
    /\ fGrouped[1].qe = 900 /\ fGrouped[2].qe = 200 /\ fGrouped[3].qe = 300

\* C22 (as claimed): of two records of one query the lower-ranked one is
\* suppressed by the sparsification if and only if their fractional
\* overlap exceeds max_overlap.
C22_SuppressedIffExceeds ==
    (fPhase = "sparse" /\ Len(fGrouped) = 2 /\ Better(fGrouped[1], fGrouped[2])) =>
        /\ \E i \in 1..Len(fSparse) : fSparse[i] = fGrouped[1]
        /\ (\A i \in 1..Len(fSparse) : fSparse[i] # fGrouped[2])
              <=> ExceedsOverlap(fGrouped[1], fGrouped[2], fCfg.max_overlap)

\* The query-local results of query q: any of its records on two targets
\* with two identities.
QueryResults(q) ==
    SUBSET {Mapping(q, t, 0, 2, 0, identity, 2) : t \in {0, 1}, identity \in {80, 99}}

\* The query sets arrive one after the other, query 0 first.
InitOneToOne ==
    /\ fPending \in {sets \in [1..NumQuerySets -> UNION {QueryResults(q) : q \in 0..(NumQuerySets - 1)}] :
                        \A k \in 1..NumQuerySets : sets[k] \in QueryResults(k - 1)}
    /\ fIn = fPending
    /\ fCfg = [max_per_query |-> 1, max_overlap |-> MaxOverlapPct]
    /\ fGrouped = <<>>
    /\ fSparse = <<>>
    /\ fPhase = "collecting"
    /\ fAgg = {}
    /\ fFinal = {}

\* The highest score in a set of records, 0 for the empty set.
RECURSIVE MaxScore(_)
MaxScore(recs) ==
    IF recs = {} THEN 0
    ELSE LET r == CHOOSE x \in recs : TRUE
             rest == MaxScore(recs \ {r})
         IN IF Score(r) > rest THEN Score(r) ELSE rest

\* Stage 5: the records that have the best score of their query and the
\* best score of their target.
ReciprocalBest(recs) ==
    {r \in recs :
        /\ Score(r) = MaxScore({x \in recs : x.q = r.q})
        /\ Score(r) = MaxScore({x \in recs : x.t = r.t})}

\* The filtered records of the next query are added to the aggregate.
aggregate ==
    /\ UNCHANGED notFilter
    /\ fPhase = "collecting"
    /\ fPending # <<>>
    /\ fAgg' = fAgg \cup Head(fPending)
    /\ fPending' = Tail(fPending)
    /\ UNCHANGED <<fIn, fCfg, fGrouped, fSparse, fPhase, fFinal>>

\* The reciprocal-best pass run on whatever has been aggregated so far.
one_to_one_early ==
    /\ UNCHANGED notFilter
    /\ fPhase = "collecting"
    /\ fAgg # {}
    /\ fFinal' = ReciprocalBest(fAgg)
    /\ fPhase' = "final"
    /\ UNCHANGED <<fIn, fCfg, fGrouped, fSparse, fPending, fAgg>>

\* The final pass, once every query set has been aggregated.
one_to_one ==
    /\ UNCHANGED notFilter
    /\ fPhase = "collecting"
    /\ fPending = <<>>
    /\ fFinal' = ReciprocalBest(fAgg)
    /\ fPhase' = "final"
    /\ UNCHANGED <<fIn, fCfg, fGrouped, fSparse, fPending, fAgg>>

TabLines == [nfields : {11, 12, 13}, numeric : BOOLEAN]

\* The record of a line, or no record for a malformed line.
ParseLine(line, lineno) ==
    IF line.nfields < 12 THEN <<>>
    ELSE IF ~line.numeric THEN <<>>
    ELSE <<lineno>>

IdleTab ==
    /\ tLines = <<>> /\ tPos = 0 /\ tDelivered = <<>> /\ tSkipped = 0
    /\ tState = "idle"

InitTab ==
    /\ tLines \in UNION {[1..k -> TabLines] : k \in 0..MaxLines}
    /\ tPos = 0
    /\ tDelivered = <<>>
    /\ tSkipped = 0
    /\ tState = "reading"

\* A reader that gives up at the first malformed line.
read_line_abort ==
    /\ UNCHANGED notTab
    /\ tState = "reading"
    /\ tPos < Len(tLines)
    /\ LET rec == ParseLine(tLines[tPos + 1], tPos + 1)
       IN IF rec = <<>>
          THEN /\ tState' = "aborted"
               /\ UNCHANGED <<tDelivered, tSkipped>>
          ELSE /\ tDelivered' = tDelivered \o rec
               /\ UNCHANGED <<tSkipped, tState>>
    /\ tPos' = tPos + 1
    /\ UNCHANGED tLines

\* The next line is read: its record is delivered, or the line is skipped
\* and counted.
read_line ==
    /\ UNCHANGED notTab
    /\ tState = "reading"
    /\ tPos < Len(tLines)
    /\ LET rec == ParseLine(tLines[tPos + 1], tPos + 1)
       IN IF rec = <<>>
          THEN /\ tSkipped' = tSkipped + 1
               /\ UNCHANGED tDelivered
          ELSE /\ tDelivered' = tDelivered \o rec
               /\ UNCHANGED tSkipped
    /\ tPos' = tPos + 1
    /\ UNCHANGED <<tLines, tState>>

\* End of the input.
read_end ==
    /\ UNCHANGED notTab
    /\ tState = "reading"
    /\ tPos = Len(tLines)
    /\ tState' = "done"
    /\ UNCHANGED <<tLines, tPos, tDelivered, tSkipped>>

\* A line is well formed: the twelve mandatory fields, numbers where
\* numbers are expected.
WellFormedLine(line) == line.nfields >= 12 /\ line.numeric

\* The numbers of the well-formed lines among the first n, in order.
RECURSIVE WellFormedUpTo(_)
WellFormedUpTo(n) ==
    IF n = 0 THEN <<>>
    ELSE WellFormedUpTo(n - 1)
             \o (IF WellFormedLine(tLines[n]) THEN <<n>> ELSE <<>>)

\* C24: a malformed line never aborts the stream; the records delivered
\* are those of the well-formed lines read so far, in order, and the
\* count of skipped lines is the number of malformed lines read so far;
\* the stream ends only with every line read.
C24_MalformedLineRecovery ==
    /\ tState # "aborted"
    /\ tDelivered = WellFormedUpTo(tPos)
    /\ tSkipped = tPos - Len(tDelivered)
    /\ tState = "done" => tPos = Len(tLines)

\* A malformed line between two well-formed ones: both were delivered and
\* one line was counted as skipped.
C24_Witness ==
    /\ tState = "done"
    /\ Len(tLines) = 3
    /\ ~WellFormedLine(tLines[2])
    /\ tDelivered = <<1, 3>>
    /\ tSkipped = 1

\* ------------------------------------------------------------------------
\* Heap blocks of the handles: what aln_open, aln_create and the two close
\* functions malloc, read with Read_GDB, close with Close_GDB and free
\* ------------------------------------------------------------------------

Handles == {"reader", "writer"}

\* The blocks of a handle: its struct, the two GDB structs and, for the
\* writer, the schema.
Blocks == {"struct", "g1", "g2", "schema"}

\* A handle before it is opened or created.
NoHandle ==
    [state |-> "none", same |-> FALSE, gdb1 |-> "NULL", gdb2 |-> "NULL",
     alloc |-> {}, read |-> {},
     closes |-> [b \in Blocks |-> 0], frees |-> [b \in Blocks |-> 0]]

Bump(f, b) == [f EXCEPT ![b] = @ + 1]

\* The steps of aln_open and of aln_create that can fail, in program order.
OpenFailures == <<"malloc", "open", "read1", "read2">>

CreateFailures == <<"malloc", "malloc1", "read1", "malloc2", "read2", "schema", "file">>

StageNo(stages, f) == CHOOSE i \in 1..Len(stages) : stages[i] = f

\* Stage s was passed: the call did not fail there or before.
Passed(stages, fail, s) == fail = "none" \/ StageNo(stages, fail) > StageNo(stages, s)

\* The release shared by aln_close, aln_close_writer and the error label
\* of aln_create: Close_GDB and free of gdb1 if it is not NULL, of gdb2 if
\* it is neither NULL nor gdb1, then free of the struct.
Release(r) ==
    LET r1 == IF r.gdb1 # "NULL"
              THEN [r EXCEPT !.closes = Bump(@, r.gdb1), !.frees = Bump(@, r.gdb1)]
              ELSE r
        r2 == IF r.gdb2 # "NULL" /\ r.gdb2 # r.gdb1
              THEN [r1 EXCEPT !.closes = Bump(@, r.gdb2), !.frees = Bump(@, r.gdb2)]
              ELSE r1
    IN [r2 EXCEPT !.frees = Bump(@, "struct")]

IdleMem == mem = [h \in Handles |-> NoHandle]

\* aln_open with both database names equal (same) or not, failing at step
\* fail or not at all. The two GDB blocks are malloc'ed before the first
\* Read_GDB; with equal names gdb2 is then set to gdb1.
aln_open_mem(same, fail) ==
    /\ UNCHANGED notMem
    /\ mem["reader"].state = "none"
    /\ fail \in {"none"} \cup {OpenFailures[i] : i \in 1..Len(OpenFailures)}
    /\ same => fail # "read2"
    /\ LET ok(s) == Passed(OpenFailures, fail, s)
           r == [NoHandle EXCEPT
                   !.state = IF fail = "none" THEN "open" ELSE "failed",
                   !.same = same,
                   !.alloc = (IF ok("malloc") THEN {"struct"} ELSE {})
                             \cup (IF ok("open") THEN {"g1", "g2"} ELSE {}),
                   !.read = (IF ok("read1") THEN {"g1"} ELSE {})
                            \cup (IF ~same /\ ok("read2") THEN {"g2"} ELSE {}),
                   !.gdb1 = IF ok("open") THEN "g1" ELSE "NULL",
                   !.gdb2 = IF ~ok("open") THEN "NULL"
                            ELSE IF same /\ ok("read1") THEN "g1" ELSE "g2"]
           e == IF fail = "open"
                THEN [r EXCEPT !.frees = Bump(@, "struct")]
                ELSE IF fail = "read1"
                THEN [r EXCEPT !.frees = Bump(Bump(Bump(@, "g1"), "g2"), "struct")]
                ELSE IF fail = "read2"
                THEN [r EXCEPT !.closes = Bump(@, "g1"),
                               !.frees = Bump(Bump(Bump(@, "g1"), "g2"), "struct")]
                ELSE r
       IN mem' = [mem EXCEPT !["reader"] = e]

\* aln_close(handle); a NULL handle is left alone.
aln_close_mem ==
    /\ UNCHANGED notMem
    /\ mem["reader"].state \in {"open", "failed"}
    /\ mem' = [mem EXCEPT !["reader"] =
                  IF @.state = "failed" THEN [@ EXCEPT !.state = "closed"]
                  ELSE [Release(@) EXCEPT !.state = "closed"]]

\* aln_create with both database paths equal (same) or not, failing at step
\* fail or not at all; every failure after the first malloc goes to the
\* error label.
aln_create_mem(same, fail) ==
    /\ UNCHANGED notMem
    /\ mem["writer"].state = "none"
    /\ fail \in {"none"} \cup {CreateFailures[i] : i \in 1..Len(CreateFailures)}
    /\ same => fail \notin {"malloc2", "read2"}
    /\ LET ok(s) == Passed(CreateFailures, fail, s)
           r == [NoHandle EXCEPT
                   !.state = IF fail = "none" THEN "open" ELSE "failed",
                   !.same = same,
                   !.alloc = (IF ok("malloc") THEN {"struct"} ELSE {})
                             \cup (IF ok("malloc1") THEN {"g1"} ELSE {})
                             \cup (IF ~same /\ ok("malloc2") THEN {"g2"} ELSE {})
                             \cup (IF ok("schema") THEN {"schema"} ELSE {}),
                   !.read = (IF ok("read1") THEN {"g1"} ELSE {})
                            \cup (IF ~same /\ ok("read2") THEN {"g2"} ELSE {}),
                   !.gdb1 = IF ok("malloc1") THEN "g1" ELSE "NULL",
                   !.gdb2 = IF ~ok("read1") THEN "NULL"
                            ELSE IF same THEN "g1"
                            ELSE IF ok("malloc2") THEN "g2" ELSE "NULL",
                   !.frees = IF fail = "file" THEN Bump(@, "schema") ELSE @]
       IN mem' = [mem EXCEPT !["writer"] =
                     IF fail \in {"none", "malloc"} THEN r ELSE Release(r)]

\* aln_close_writer(handle); a NULL handle is left alone.
aln_close_writer_mem ==
    /\ UNCHANGED notMem
    /\ mem["writer"].state \in {"open", "failed"}
    /\ mem' = [mem EXCEPT !["writer"] =
                  IF @.state = "failed" THEN [@ EXCEPT !.state = "closed"]
                  ELSE [Release(@) EXCEPT !.state = "closed"]]

\* C29 (as claimed): when aln_create has failed, every block it had
\* allocated has been freed exactly once, nothing else has been freed, and
\* Close_GDB has been called only on GDBs whose Read_GDB succeeded, at most
\* once each.
C29_CreateFailureReleases ==
    mem["writer"].state = "failed" =>
        \A b \in Blocks :
            /\ mem["writer"].frees[b] = (IF b \in mem["writer"].alloc THEN 1 ELSE 0)
            /\ mem["writer"].closes[b] <= 1
            /\ mem["writer"].closes[b] > 0 => b \in mem["writer"].read

\* C30 (as claimed): after the matching close of a handle that was opened
\* or created, each GDB block it had allocated has been freed exactly once
\* and each GDB it had read has been closed exactly once.
C30_ExactlyOnceRelease ==
    \A h \in Handles :
        mem[h].state = "closed" /\ mem[h].read # {} =>
            \A b \in {"g1", "g2"} :
                /\ mem[h].frees[b] = (IF b \in mem[h].alloc THEN 1 ELSE 0)
                /\ mem[h].closes[b] = (IF b \in mem[h].read THEN 1 ELSE 0)

\* ------------------------------------------------------------------------
\* stdout capture: fastga_run_embedded redirects stdout to a stream whose
\* writes capture_write appends to a growing buffer (fastga_embedded.c)
\* ------------------------------------------------------------------------

\* Capacity of the buffer fastga_init_capture allocates (1024 * 1024 in the
\* code, scaled so that a few chunks fill and outgrow it).
InitCapacity == 2

\* Longest chunk passed to capture_write and most calls in one run.
MaxChunk == 2

MaxWrites == 3

\* Bytes of the output; NUL is the terminator, Garbage a byte never written.
NUL == 0

Garbage == 9

OutBytes == {1, 2}

Chunks == UNION {[1..n -> OutBytes] : n \in 1..MaxChunk}

NullBuffer == [alloc |-> FALSE, bytes |-> <<>>]

\* memcpy(dst + off, src, Len(src)) into a block holding bytes.
Memcpy(bytes, off, src) ==
    [i \in 1..Len(bytes) |->
        IF i > off /\ i <= off + Len(src) THEN src[i - off] ELSE bytes[i]]

\* realloc to n bytes: the old bytes are kept, the new ones are not set.
Realloc(bytes, n) ==
    [i \in 1..n |-> IF i <= Len(bytes) THEN bytes[i] ELSE Garbage]

\* The C string at the start of a block: its bytes before the first NUL.
RECURSIVE CString(_)
CString(bytes) ==
    IF bytes = <<>> \/ Head(bytes) = NUL THEN <<>>
    ELSE <<Head(bytes)>> \o CString(Tail(bytes))

IdleCap ==
    /\ output_buffer = NullBuffer
    /\ output_size = 0
    /\ output_capacity = 0
    /\ output_stream = "NULL"
    /\ stdout = "orig"
    /\ epc = "idle"
    /\ output = FALSE
    /\ captured = <<>>
    /\ lastWrite = <<>>
    /\ cret = <<>>

\* fastga_run_embedded up to the call of fastga_main: fastga_init_capture
\* (malloc and fopencookie may fail), then stdout is redirected if output
\* and the stream are not NULL.
fastga_run_embedded_enter(out, malloc_ok, stream_ok) ==
    /\ UNCHANGED notCap
    /\ epc \in {"idle", "returned"}
    /\ output_buffer' = IF malloc_ok
                        THEN [alloc |-> TRUE, bytes |-> [i \in 1..InitCapacity |-> Garbage]]
                        ELSE NullBuffer
    /\ output_capacity' = InitCapacity
    /\ output_size' = 0
    /\ output_stream' = IF stream_ok THEN "open" ELSE "NULL"
    /\ stdout' = IF out /\ stream_ok THEN "capture" ELSE "orig"
    /\ output' = out
    /\ epc' = "running"
    /\ captured' = <<>>
    /\ lastWrite' = <<>>
    /\ cret' = <<>>

\* capture_write calls made since fastga_main was called.
WritesMade == IF lastWrite = <<>> THEN 0 ELSE lastWrite[1].n

\* capture_write that copies the chunk to the start of the buffer.
capture_write_at_start(chunk, realloc_ok) ==
    /\ UNCHANGED notCap
    /\ epc = "running"
    /\ stdout = "capture"
    /\ output_buffer.alloc
    /\ WritesMade < MaxWrites
    /\ LET size == Len(chunk)
           grow == output_size + size > output_capacity
           new_capacity == (output_capacity + size) * 2
           n == WritesMade + 1
           before == [buffer |-> output_buffer, size |-> output_size,
                      capacity |-> output_capacity]
       IN IF grow /\ ~realloc_ok
          THEN /\ lastWrite' = <<[n |-> n, chunk |-> chunk, before |-> before, ret |-> -1]>>
               /\ UNCHANGED <<output_buffer, output_size, output_capacity, captured>>
          ELSE /\ output_buffer' =
                     [alloc |-> TRUE,
                      bytes |-> Memcpy(IF grow THEN Realloc(output_buffer.bytes, new_capacity)
                                       ELSE output_buffer.bytes,
                                       0, chunk)]
               /\ output_capacity' = IF grow THEN new_capacity ELSE output_capacity
               /\ output_size' = output_size + size
               /\ captured' = captured \o chunk
               /\ lastWrite' = <<[n |-> n, chunk |-> chunk, before |-> before, ret |-> size]>>
    /\ UNCHANGED <<output_stream, stdout, epc, output, cret>>

\* capture_write(cookie, buf, size), called by the stream while fastga_main
\* writes to the redirected stdout; realloc_ok is whether realloc succeeds
\* if the buffer has to grow.
capture_write(chunk, realloc_ok) ==
    /\ UNCHANGED notCap
    /\ epc = "running"
    /\ stdout = "capture"
    /\ output_buffer.alloc
    /\ WritesMade < MaxWrites
    /\ LET size == Len(chunk)
           grow == output_size + size > output_capacity
           new_capacity == (output_capacity + size) * 2
           n == WritesMade + 1
           before == [buffer |-> output_buffer, size |-> output_size,
                      capacity |-> output_capacity]
       IN IF grow /\ ~realloc_ok
          THEN /\ lastWrite' = <<[n |-> n, chunk |-> chunk, before |-> before, ret |-> -1]>>
               /\ UNCHANGED <<output_buffer, output_size, output_capacity, captured>>
          ELSE /\ output_buffer' =
                     [alloc |-> TRUE,
                      bytes |-> Memcpy(IF grow THEN Realloc(output_buffer.bytes, new_capacity)
                                       ELSE output_buffer.bytes,
                                       output_size, chunk)]
               /\ output_capacity' = IF grow THEN new_capacity ELSE output_capacity
               /\ output_size' = output_size + size
               /\ captured' = captured \o chunk
               /\ lastWrite' = <<[n |-> n, chunk |-> chunk, before |-> before, ret |-> size]>>
    /\ UNCHANGED <<output_stream, stdout, epc, output, cret>>

\* capture_write when the malloc of fastga_init_capture failed: memcpy to a
\* NULL buffer is undefined; the process crashes or goes on with
\* output_size advanced.
capture_write_null(chunk, crash) ==
    /\ UNCHANGED notCap
    /\ epc = "running"
    /\ stdout = "capture"
    /\ ~output_buffer.alloc
    /\ output_size + Len(chunk) <= output_capacity
    /\ IF crash
       THEN epc' = "crashed" /\ UNCHANGED output_size
       ELSE output_size' = output_size + Len(chunk) /\ UNCHANGED epc
    /\ UNCHANGED <<output_buffer, output_capacity, output_stream, stdout, output,
                   captured, lastWrite, cret>>

\* fastga_get_output on the current globals: the NUL is stored only when
\* output_size < output_capacity; the block (NULL: <<>>) is returned.
fastga_get_output ==
    IF output_buffer.alloc /\ output_size < output_capacity
    THEN Memcpy(output_buffer.bytes, output_size, <<NUL>>)
    ELSE output_buffer.bytes

\* fastga_run_embedded that leaves stdout redirected.
fastga_run_embedded_leave_redirected(result, past) ==
    /\ UNCHANGED notCap
    /\ epc = "running"
    /\ stdout' = stdout
    /\ LET block == fastga_get_output
           inside == \E i \in 1..Len(block) : block[i] = NUL
           str == IF inside \/ past = "nul" THEN CString(block)
                  ELSE block \o <<Garbage>>
       IN IF output /\ output_buffer.alloc /\ ~inside /\ past = "crash"
          THEN /\ epc' = "crashed"
               /\ UNCHANGED <<output_buffer, output_size, output_capacity, output_stream,
                              cret>>
          ELSE /\ cret' = <<[result |-> result, given |-> output,
                            null |-> ~(output /\ output_buffer.alloc),
                            str |-> IF output /\ output_buffer.alloc THEN str ELSE <<>>,
                            terminated |-> output /\ output_buffer.alloc /\ inside]>>
               /\ output_stream' = "NULL"
               /\ output_buffer' = NullBuffer
               /\ output_size' = 0
               /\ output_capacity' = 0
               /\ epc' = "returned"
    /\ UNCHANGED <<output, captured, lastWrite>>

\* fastga_run_embedded from the return of fastga_main (result): stdout is
\* restored, the output of fastga_get_output is copied with strdup if
\* output is not NULL, then fastga_cleanup_capture. When the block holds
\* no NUL strdup reads past it: it crashes, or finds a NUL right after the
\* block, or one byte later (past).
fastga_run_embedded_leave(result, past) ==
    /\ UNCHANGED notCap
    /\ epc = "running"
    /\ stdout' = "orig"
    /\ LET block == fastga_get_output
           inside == \E i \in 1..Len(block) : block[i] = NUL
           str == IF inside \/ past = "nul" THEN CString(block)
                  ELSE block \o <<Garbage>>
       IN IF output /\ output_buffer.alloc /\ ~inside /\ past = "crash"
          THEN /\ epc' = "crashed"
               /\ UNCHANGED <<output_buffer, output_size, output_capacity, output_stream,
                              cret>>
          ELSE /\ cret' = <<[result |-> result, given |-> output,
                            null |-> ~(output /\ output_buffer.alloc),
                            str |-> IF output /\ output_buffer.alloc THEN str ELSE <<>>,
                            terminated |-> output /\ output_buffer.alloc /\ inside]>>
               /\ output_stream' = "NULL"
               /\ output_buffer' = NullBuffer
               /\ output_size' = 0
               /\ output_capacity' = 0
               /\ epc' = "returned"
    /\ UNCHANGED <<output, captured, lastWrite>>

CaptureStep ==
    \/ \E out, malloc_ok, stream_ok \in BOOLEAN :
          fastga_run_embedded_enter(out, malloc_ok, stream_ok)
    \/ \E chunk \in Chunks, realloc_ok \in BOOLEAN : capture_write(chunk, realloc_ok)
    \/ \E chunk \in Chunks, crash \in BOOLEAN : capture_write_null(chunk, crash)
    \/ \E result \in {0, 1}, past \in {"nul", "byte", "crash"} :
          fastga_run_embedded_leave(result, past)

\* C38: while fastga_main runs after a successful fastga_init_capture,
\* output_size <= output_capacity and the first output_size bytes of the
\* buffer are the chunks whose capture_write succeeded, in call order; the
\* last capture_write either failed to grow the buffer, returned -1 and
\* left buffer, size and capacity as they were, or returned the size of its
\* chunk and advanced output_size by exactly that.
C38_CaptureBufferInvariant ==
    epc = "running" /\ output_buffer.alloc =>
        /\ output_size <= output_capacity
        /\ Len(output_buffer.bytes) = output_capacity
        /\ SubSeq(output_buffer.bytes, 1, output_size) = captured
        /\ lastWrite # <<>> =>
              LET w == lastWrite[1]
              IN IF w.ret = -1
                 THEN /\ w.before.size + Len(w.chunk) > w.before.capacity
                      /\ output_buffer = w.before.buffer
                      /\ output_size = w.before.size
                      /\ output_capacity = w.before.capacity
                 ELSE /\ w.ret = Len(w.chunk)
                      /\ output_size = w.before.size + w.ret

\* A chunk filled the buffer exactly and the next capture_write failed to
\* grow it.
C38_Witness ==
    /\ epc = "running"
    /\ lastWrite # <<>>
    /\ lastWrite[1].n = 2
    /\ lastWrite[1].ret = -1
    /\ output_size = output_capacity
    /\ captured = <<1, 2>>

\* C31 (as claimed): the string fastga_run_embedded copies to the caller
\* was NUL-terminated inside the capture buffer and is the captured bytes,
\* and the copy never runs past the buffer.
C31_OutputTerminated ==
    /\ epc = "crashed" => ~output_buffer.alloc
    /\ epc = "returned" /\ cret[1].given /\ ~cret[1].null =>
          cret[1].terminated /\ cret[1].str = captured

\* C37: when fastga_run_embedded has returned, whatever fastga_main
\* returned, stdout is the stream it was before the call and the capture
\* globals are reset; when no output pointer is given stdout is never
\* redirected and nothing is returned.
C37_ProcessStateRestored ==
    /\ epc = "returned" =>
          /\ stdout = "orig"
          /\ output_buffer = NullBuffer
          /\ output_size = 0
          /\ output_capacity = 0
          /\ output_stream = "NULL"
    /\ epc # "idle" /\ ~output =>
          /\ stdout = "orig"
          /\ captured = <<>>
          /\ epc = "returned" => cret[1].null /\ cret[1].str = <<>>

\* fastga_run_embedded returned fastga_main's failure code with output
\* given, after output had been captured through the redirected stdout.
C37_Witness ==
    /\ epc = "returned"
    /\ cret[1].result = 1
    /\ cret[1].given
    /\ captured # <<>>
    /\ stdout = "orig"

\* ------------------------------------------------------------------------
\* GIXpack -d: main calls decompress_ktab for every ktab part (GIXpack.c)
\* ------------------------------------------------------------------------

\* Most parts of an index and most frames of a compressed part.
MaxParts == 2

MaxFrames == 2

\* The steps of decompress_ktab that can fail before the first frame.
KtabFailures ==
    {"fopen_in", "header", "malloc_data", "read_data", "create", "initBuff",
     "fopen_out", "malloc_buffer"}

\* A compressed part: its frames, the ZSTD_seekable_decompress call that
\* reports an error (0: none) and the earlier step that fails ("none").
KtabInputs ==
    {k \in [frames : 0..MaxFrames, error_at : 0..MaxFrames,
            fail : KtabFailures \cup {"none"}] :
        /\ k.error_at <= k.frames
        /\ k.fail # "none" => k.error_at = 0}

\* decompress_ktab(inpath, outpath): the value returned and the output file
\* (created, 12-byte header written, frames written). The loop over the
\* frames ends at the first call that reports an error or returns 0, and 0
\* is returned after it.
decompress_ktab(k) ==
    IF k.fail \in KtabFailures \ {"malloc_buffer"}
    THEN [ret |-> 1, created |-> FALSE, header |-> FALSE, written |-> 0]
    ELSE IF k.fail = "malloc_buffer"
    THEN [ret |-> 1, created |-> TRUE, header |-> TRUE, written |-> 0]
    ELSE IF k.error_at > 0
    THEN [ret |-> 0, created |-> TRUE, header |-> TRUE, written |-> k.error_at - 1]
    ELSE [ret |-> 0, created |-> TRUE, header |-> TRUE, written |-> k.frames]

IdleGix ==
    /\ nthreads = 0
    /\ part = 1
    /\ ktab = <<>>
    /\ exitStatus = -1

InitGix ==
    /\ nthreads \in 1..MaxParts
    /\ part = 1
    /\ ktab = <<>>
    /\ exitStatus = -1

\* One turn of main's loop over the parts: decompress_ktab for part p,
\* exit(1) if it returns non-zero.
GIXpack_part(k) ==
    /\ UNCHANGED notGix
    /\ exitStatus = -1
    /\ part <= nthreads
    /\ LET out == decompress_ktab(k)
       IN /\ ktab' = Append(ktab, [in |-> k, out |-> out])
          /\ IF out.ret # 0
             THEN exitStatus' = 1 /\ UNCHANGED part
             ELSE part' = part + 1 /\ UNCHANGED exitStatus
    /\ UNCHANGED nthreads

\* main after the loop: exit(0).
GIXpack_exit ==
    /\ UNCHANGED notGix
    /\ exitStatus = -1
    /\ part > nthreads
    /\ exitStatus' = 0
    /\ UNCHANGED <<nthreads, part, ktab>>

GixStep ==
    \/ \E k \in KtabInputs : GIXpack_part(k)
    \/ GIXpack_exit

\* The output file of a part holds the header and every frame.
Reproduced(r) ==
    r.out.created /\ r.out.header /\ r.out.written = r.in.frames /\ r.in.error_at = 0

\* C33 (as claimed): decompress_ktab returns 0 exactly when the whole part
\* was reproduced; a part for which it returned non-zero is the last one
\* processed and the process exits with status 1.
C33_DecompressReportsFailure ==
    /\ \A i \in 1..Len(ktab) :
          /\ ktab[i].out.ret = 0 <=> Reproduced(ktab[i])
          /\ ktab[i].out.ret # 0 => i = Len(ktab) /\ exitStatus = 1
    /\ exitStatus = 0 => Len(ktab) = nthreads

IdleExt == IdleFilter /\ IdleTab /\ IdleMem /\ IdleCap /\ IdleGix

\* ------------------------------------------------------------------------
\* Specifications
\* ------------------------------------------------------------------------

\* The codec: one writer, then one reader, on one file.
Init == InitCodec /\ InitSchema /\ IdleStream /\ IdlePipe /\ InitCb /\ IdleQapi /\ IdleOpen /\ InitExec /\ IdleExt

Next == CodecStep

Spec == Init /\ [][Next]_vars

\* Concurrent writer creation.
InitCreate == IdleCodec /\ InitSchema /\ IdleStream /\ IdlePipe /\ InitCb /\ IdleQapi /\ IdleOpen /\ InitExec /\ IdleExt

NextCreate == SchemaStep

SpecCreate == InitCreate /\ [][NextCreate]_vars

\* The streaming query iterator.
InitIter == IdleCodec /\ InitSchema /\ InitStream /\ IdlePipe /\ InitCb /\ IdleQapi /\ IdleOpen /\ InitExec /\ IdleExt

NextIter == StreamStep

SpecStream == InitIter /\ [][NextIter]_vars

\* The producer is a thread of its own and is scheduled as long as it can act.
FairStream == SpecStream /\ WF_vars(ProducerStep)

\* Concurrent pipeline invocations.
InitDriver == IdleCodec /\ InitSchema /\ IdleStream /\ InitPipe /\ InitCb /\ IdleQapi /\ IdleOpen /\ InitExec /\ IdleExt

NextDriver == PipeStep

SpecPipe == InitDriver /\ [][NextDriver]_vars

\* The timer of a timeout-configured invocation fires while the child of a
\* stage is running.
FairPipe == SpecPipe /\ \A i \in Invocations : WF_vars(Timeout(i))

\* Concurrent in-process invocations with callbacks.
InitCallbacks == IdleCodec /\ InitSchema /\ IdleStream /\ IdlePipe /\ InitCb /\ IdleQapi /\ IdleOpen /\ InitExec /\ IdleExt

NextCallbacks == CbStep

SpecCallbacks == InitCallbacks /\ [][NextCallbacks]_vars

\* The query-wise API.
InitQueries == IdleCodec /\ InitSchema /\ IdleStream /\ IdlePipe /\ InitCb /\ InitQapi /\ IdleOpen /\ InitExec /\ IdleExt

NextQueries == QapiStep

SpecQueries == InitQueries /\ [][NextQueries]_vars

\* Concurrent callers that all go through create_aln_schema.
InitGuard == IdleCodec /\ InitSchema /\ IdleStream /\ IdlePipe /\ InitCb /\ IdleQapi /\ IdleOpen /\ InitExec /\ IdleExt

NextGuard == \E c \in Callers : GuardedCall(c)

SpecGuard == InitGuard /\ [][NextGuard]_vars

\* Every caller is a thread that is scheduled as long as it can act.
FairGuard == SpecGuard /\ \A c \in Callers : WF_vars(GuardedCall(c))

\* Opening a container some time after it was written.
InitReader == IdleCodec /\ InitSchema /\ IdleStream /\ IdlePipe /\ InitCb /\ IdleQapi /\ InitOpen /\ InitExec /\ IdleExt

NextReader == OpenStep

SpecOpen == InitReader /\ [][NextReader]_vars

\* Reading files of stored overlaps.
InitDecode == InitStored /\ InitSchema /\ IdleStream /\ IdlePipe /\ InitCb /\ IdleQapi /\ IdleOpen /\ InitExec /\ IdleExt

NextDecode == ReaderStep

SpecDecode == InitDecode /\ [][NextDecode]_vars

\* One caller process using the stage entry points.
InitEntries == IdleCodec /\ InitSchema /\ IdleStream /\ IdlePipe /\ InitCb /\ IdleQapi /\ IdleOpen /\ InitExec /\ IdleExt

NextEntries == ExecStep

SpecEntries == InitEntries /\ [][NextEntries]_vars

\* The query-local filters on the candidates of one query.
InitSweep == IdleCodec /\ InitSchema /\ IdleStream /\ IdlePipe /\ InitCb /\ IdleQapi /\ IdleOpen /\ InitExec /\ InitQueryLocal /\ IdleTab /\ IdleMem /\ IdleCap /\ IdleGix

NextSweep == QueryLocalStep

SpecQueryLocal == InitSweep /\ [][NextSweep]_vars

\* The aggregation of the query sets and the final one-to-one pass.
InitFinalPass == IdleCodec /\ InitSchema /\ IdleStream /\ IdlePipe /\ InitCb /\ IdleQapi /\ IdleOpen /\ InitExec /\ InitOneToOne /\ IdleTab /\ IdleMem /\ IdleCap /\ IdleGix

NextFinalPass == aggregate \/ one_to_one

SpecOneToOne == InitFinalPass /\ [][NextFinalPass]_vars

\* Reading a tabular input.
InitTabular == IdleCodec /\ InitSchema /\ IdleStream /\ IdlePipe /\ InitCb /\ IdleQapi /\ IdleOpen /\ InitExec /\ IdleFilter /\ InitTab /\ IdleMem /\ IdleCap /\ IdleGix

NextTabular == read_line \/ read_end

SpecTabular == InitTabular /\ [][NextTabular]_vars

\* A reader that reads its records and looks names up in any order.
InitNames == InitLookup /\ InitSchema /\ IdleStream /\ IdlePipe /\ InitCb /\ IdleQapi /\ InitOpen /\ InitExec /\ IdleExt

NextNames == ReaderStep \/ OpenStep

SpecLookup == InitNames /\ [][NextNames]_vars

\* A reader and a writer handle, each opened or created once and closed.
InitHandles == IdleCodec /\ InitSchema /\ IdleStream /\ IdlePipe /\ InitCb /\ IdleQapi /\ IdleOpen /\ InitExec /\ IdleFilter /\ IdleTab /\ IdleMem /\ IdleCap /\ IdleGix

NextHandles ==
    \/ \E same \in BOOLEAN, fail \in {"none", "malloc", "open", "read1", "read2"} :
          aln_open_mem(same, fail)
    \/ aln_close_mem
    \/ \E same \in BOOLEAN,
          fail \in {"none", "malloc", "malloc1", "read1", "malloc2", "read2", "schema", "file"} :
          aln_create_mem(same, fail)
    \/ aln_close_writer_mem

SpecHandles == InitHandles /\ [][NextHandles]_vars

\* Calls of fastga_run_embedded, one after the other, with the writes the
\* redirected stdout makes while fastga_main runs.
InitCapture == IdleCodec /\ InitSchema /\ IdleStream /\ IdlePipe /\ InitCb /\ IdleQapi /\ IdleOpen /\ InitExec /\ IdleFilter /\ IdleTab /\ IdleMem /\ IdleCap /\ IdleGix

NextCapture == CaptureStep

SpecCapture == InitCapture /\ [][NextCapture]_vars

\* GIXpack -d on an index of one or more parts.
InitUnpack == IdleCodec /\ InitSchema /\ IdleStream /\ IdlePipe /\ InitCb /\ IdleQapi /\ IdleOpen /\ InitExec /\ IdleFilter /\ IdleTab /\ IdleMem /\ IdleCap /\ InitGix

NextUnpack == GixStep

SpecUnpack == InitUnpack /\ [][NextUnpack]_vars

\* C32 (as claimed): once fastga_align_with_callback or
\* fastga_align_streaming has returned, whatever the return path, none of
\* the globals still holds the callback, the user data or the context of
\* that call.
C32_NoStaleCallback ==
    \A t \in Threads :
        tpc[t] = "done" =>
            /\ g_callback # t
            /\ g_user_data # t
            /\ g_stream_context # t

StreamCounters ==
    \A t \in Threads :
        /\ 0 <= ctx[t].filtered_count
        /\ ctx[t].filtered_count <= ctx[t].alignment_count
        /\ ctx[t].alignment_count = tally[t].seen
        /\ ctx[t].alignment_count - ctx[t].filtered_count = tally[t].kept

\* A fastga_process_alignment call made with no context or no callback
\* returns 1 and changes no counter.
NoCallbackNoCount ==
    (/\ hook' # hook
     /\ hook'[1].api = "fastga_process_alignment"
     /\ (hook'[1].context = 0 \/ ctx[hook'[1].producer].callback = 0))
        => /\ hook'[1].ret = 1
           /\ ctx' = ctx

\* C39: the stream counters keep their relations through every sequence
\* of fastga_process_alignment calls, and a call with no context or no
\* callback returns 1 and changes no counter.
C39_StreamCounters == [] StreamCounters /\ [][NoCallbackNoCount]_vars

\* A context has counted two calls, one of them filtered out, and the last
\* call accepted.
C39_Witness ==
    /\ hook # <<>>
    /\ hook[1].api = "fastga_process_alignment"
    /\ hook[1].installed /\ hook[1].ret = 1
    /\ ctx[hook[1].context].alignment_count = 2
    /\ ctx[hook[1].context].filtered_count = 1

\* A call made with no callback in the context: 1 is returned.
NoCallbackCall ==
    /\ hook # <<>>
    /\ hook[1].api = "fastga_process_alignment"
    /\ ~hook[1].installed /\ hook[1].ret = 1

\* The two callback entry points called one after the other by the threads
\* of a process, with the hook calls each makes.
InitHooks == IdleCodec /\ InitSchema /\ IdleStream /\ IdlePipe /\ InitCb /\ IdleQapi /\ IdleOpen /\ InitExec /\ IdleExt

NextHooks == SequentialCbStep

SpecHooks == InitHooks /\ [][NextHooks]_vars

====
